---- MODULE Spec2Model ----
(***************************************************************************)
(* A model of src/sync_app.py (StandaloneCanvasTodoistSyncApp): the Tk     *)
(* main thread (button handlers, operator edits), the daemon threads that  *)
(* sync_in_thread and fetch_courses_in_thread start, the selection file    *)
(* config.json, and the Canvas / Todoist servers as nondeterministic       *)
(* responders.  A thread's step is one shared access (a flag, a StringVar, *)
(* the checkbox map, the file) together with the local work around it.     *)
(***************************************************************************)
EXTENDS Integers, Sequences, FiniteSets, TLC

\* ------------------------------------------------------------------ bounds
NumCourses == 2
MaxAssignments == 2
MaxSyncThreads == 2
MaxFetchThreads == 2
MaxThreads == 3
MaxRejected == 1
MaxEdits == 1

Courses == 1..NumCourses
SyncThreads == 1..MaxSyncThreads
FetchThreads == 1..MaxFetchThreads

\* ------------------------------------------------------------ small helpers
Range(s) == {s[i] : i \in 1..Len(s)}

\* every sequence without repetition over the set S (a Python set's iteration
\* order is fixed per set object but not specified)
Orderings(S) ==
    {s \in [1..Cardinality(S) -> S] : \A i, j \in 1..Cardinality(S) : s[i] = s[j] => i = j}

SeqsUpTo(S, n) == UNION {[1..k -> S] : k \in 0..n}

\* a StringVar holds "" or some non-empty text; the code only tests truth
Texts == {"", "set"}

\* str(id_int) and int(id_str) of save/load_course_selection: a decimal
\* string is kept as the pair <<"dec", n>>; "-5".isdigit() is False.
\* <<"text", 0>> is a string without digits, and <<"sup", n>> a string of
\* superscript digits such as "\u00b2": isdigit() is True of it and int()
\* raises ValueError on it.
str(n) == <<"dec", n>>
isdigit(s) == (s[1] = "dec" /\ s[2] >= 0) \/ s[1] = "sup"
IntRaises(s) == s[1] # "dec"
int(s) == s[2]

\* --------------------------------------------------- what the servers send
\* An assignment of a Canvas response: its id, its submission sub-object
\* ("none": no submission, "null": a submission whose submitted_at is null,
\* "submitted": submitted_at set) and its due_at ("none": absent or null,
\* "iso": an ISO-8601 string, "bad": a string fromisoformat rejects,
\* "nonstr": a JSON value that is not a string) and its html_url
\* (<<"url", n>>: the n-th detail page, <<"absent", 0>>: no such key).
SubKinds == {"none", "null", "submitted"}
DueKinds == {"none", "iso", "bad", "nonstr"}

AssignmentId(c, pos) == c * (MaxAssignments + 1) + pos

\* the lists of at most n assignments of course c whose items have the
\* (sub, due) shapes in kinds
AssignmentLists(c, kinds, n) ==
    {[pos \in 1..Len(ks) |->
         [id |-> AssignmentId(c, pos), sub |-> ks[pos].sub, due |-> ks[pos].due,
          html_url |-> <<"url", AssignmentId(c, pos)>>]] :
        ks \in SeqsUpTo(kinds, n)}

\* GET api/v1/courses/{id}/assignments: "error" raises a RequestException,
\* "garbled" any other exception; else the list
AssignmentResponses(c, kinds, n) ==
    {[status |-> "error", assignments |-> <<>>], [status |-> "garbled", assignments |-> <<>>]}
    \cup {[status |-> "ok", assignments |-> l] : l \in AssignmentLists(c, kinds, n)}

NotRequested == [status |-> "not requested", assignments |-> <<>>]

\* GET api/v1/courses/{id}: "error" raises a RequestException, "garbled" any
\* other exception (a body that is not JSON); else the keys the body holds,
\* and whether the value under course_code is null
InfoResponses ==
    {[status |-> st, has_code |-> FALSE, has_name |-> FALSE, code_null |-> FALSE] :
        st \in {"error", "garbled"}}
    \cup {[status |-> "ok", has_code |-> hc, has_name |-> hn, code_null |-> FALSE] :
             hc, hn \in BOOLEAN}
    \cup {[status |-> "ok", has_code |-> TRUE, has_name |-> TRUE, code_null |-> TRUE]}

AllKinds == {[sub |-> s, due |-> d] : s \in SubKinds, d \in DueKinds}

\* ------------------------------------------------------------------- state
VARIABLES
    canvas_url, canvas_api_key, todoist_api_key,  \* the three StringVars
    is_syncing, is_fetching_courses,              \* the in-flight flags
    sync_button, fetch_courses_button,            \* "normal" or "disabled"
    course_checkbox_vars,                         \* {course_id: BooleanVar}
    config_file,                                  \* config.json
    sync,                                         \* the sync threads' frames
    fetch,                                        \* the fetch threads' frames
    hist,                                         \* what each sync thread did
    fhist,                                        \* what each fetch thread did
    main_log,                                     \* log lines of the main thread
    edits,                                        \* the operator's edits so far
    hash_seed                                     \* the process's string-hash seed

vars == <<canvas_url, canvas_api_key, todoist_api_key, is_syncing,
          is_fetching_courses, sync_button, fetch_courses_button,
          course_checkbox_vars, config_file, sync, fetch, hist, fhist, main_log,
          edits, hash_seed>>

credentials == <<canvas_url, canvas_api_key, todoist_api_key>>
buttons == <<sync_button, fetch_courses_button>>

None == "None"

\* config.json: "missing", "corrupt" (no JSON), "not_object" (JSON whose top
\* level is no object, such as []), or "json" with the strings of
\* {"selected_course_ids": [...]}
MissingFile == [state |-> "missing", selected_course_ids |-> <<>>]
CorruptFile == [state |-> "corrupt", selected_course_ids |-> <<>>]
NotObjectFile == [state |-> "not_object", selected_course_ids |-> <<>>]
JsonFile(id_strs) == [state |-> "json", selected_course_ids |-> id_strs]

\* a thread's frame before threading.Thread(...).start()
SyncFrame ==
    [pc |-> "unstarted", selected_course_ids |-> <<>>, i |-> 0,
     all_assignments |-> <<>>, returned |-> FALSE, assignments_is_none |-> FALSE,
     assignments |-> <<>>, error |-> None,
     synced_count |-> 0, error_count |-> 0]

\* observers of a sync thread: its log lines, its network requests, whether it
\* called save_course_selection and set is_syncing, what Canvas answered per
\* course, what it sent to Todoist, its calls of create_todoist_task (the
\* assignment, the answers the call consumed, the X-Request-Id of each POST,
\* its waits, what it returned, the delay that followed), how it ended
SyncHist ==
    [log |-> <<>>, netcalls |-> 0, wrote |-> FALSE, set_flag |-> FALSE,
     responses |-> <<>>, posted |-> <<>>, calls |-> <<>>, outcome |-> None]

FetchFrame ==
    [pc |-> "unstarted", courses_is_none |-> FALSE, courses |-> <<>>, error |-> None,
     previously_selected_ids |-> {}, i |-> 0]

\* the answer to GET api/v1/courses before the request is made
NoCoursesResponse == [status |-> "not requested", courses |-> <<>>, body |-> "message"]

\* observers of a fetch thread: its log lines, its requests, whether it set
\* is_fetching_courses, what Canvas answered, the courses that were checked
\* when it cleared the checkboxes, how it ended
FetchHist ==
    [log |-> <<>>, netcalls |-> 0, set_flag |-> FALSE, response |-> NoCoursesResponse,
     cleared |-> {}, outcome |-> None]

\* __init__ (33-72): the credentials as load_credentials (112-123) finds them
\* in the keyring, which save_credentials (127-133) fills with all three and
\* clear_local_credentials (145-147) empties of all three; flags down, no
\* checkbox, config.json as an earlier run left it
Init ==
    /\ canvas_url \in Texts
    /\ canvas_api_key = canvas_url
    /\ todoist_api_key = canvas_url
    /\ edits = 0
    /\ is_syncing = FALSE
    /\ is_fetching_courses = FALSE
    /\ sync_button = "normal"
    /\ fetch_courses_button = "normal"
    /\ course_checkbox_vars = <<>>
    /\ config_file \in {MissingFile, JsonFile(<<str(1)>>)}
    /\ sync = [w \in SyncThreads |-> SyncFrame]
    /\ fetch = [f \in FetchThreads |-> FetchFrame]
    /\ hist = [w \in SyncThreads |-> SyncHist]
    /\ fhist = [f \in FetchThreads |-> FetchHist]
    /\ main_log = <<>>
    /\ hash_seed = 1

\* --------------------------------------------------------- the main thread
\* the threads started so far, of both kinds
Started ==
    Cardinality({w \in SyncThreads : sync[w].pc # "unstarted"})
    + Cardinality({f \in FetchThreads : fetch[f].pc # "unstarted"})

\* sync_in_thread (466-472), the command of the Sync Now button
sync_in_thread ==
    /\ sync_button = "normal"
    /\ IF is_syncing
       THEN /\ Len(main_log) < MaxRejected
            /\ main_log' = Append(main_log, "Sync already running.")
            /\ UNCHANGED sync
       ELSE /\ Started < MaxThreads
            /\ \E w \in SyncThreads :
                 /\ sync[w].pc = "unstarted"
                 /\ \A v \in SyncThreads : v < w => sync[v].pc # "unstarted"
                 /\ sync' = [sync EXCEPT ![w].pc = "guard"]
            /\ UNCHANGED main_log
    /\ UNCHANGED <<hash_seed, credentials, is_syncing, is_fetching_courses, buttons,
                   course_checkbox_vars, config_file, fetch, hist, fhist, edits>>

\* fetch_courses_in_thread (384-390), the command of the Fetch Courses button
fetch_courses_in_thread ==
    /\ fetch_courses_button = "normal"
    /\ IF is_fetching_courses
       THEN /\ Len(main_log) < MaxRejected
            /\ main_log' = Append(main_log, "Already fetching courses.")
            /\ UNCHANGED fetch
       ELSE /\ Started < MaxThreads
            /\ \E f \in FetchThreads :
                 /\ fetch[f].pc = "unstarted"
                 /\ \A g \in FetchThreads : g < f => fetch[g].pc # "unstarted"
                 /\ fetch' = [fetch EXCEPT ![f].pc = "guard"]
            /\ UNCHANGED main_log
    /\ UNCHANGED <<hash_seed, credentials, is_syncing, is_fetching_courses, buttons,
                   course_checkbox_vars, config_file, sync, hist, fhist, edits>>

\* the operator clicks a course's CTkCheckBox (365-368)
ToggleCheckbox(c) ==
    /\ edits < MaxEdits
    /\ edits' = edits + 1
    /\ c \in DOMAIN course_checkbox_vars
    /\ course_checkbox_vars' = [course_checkbox_vars EXCEPT ![c] = ~@]
    /\ UNCHANGED <<hash_seed, credentials, is_syncing, is_fetching_courses, buttons,
                   config_file, sync, fetch, hist, fhist, main_log>>

\* the operator edits one of the three CTkEntry fields (497, 503, 509)
EditCredential ==
    /\ edits < MaxEdits
    /\ edits' = edits + 1
    /\ \E t \in Texts :
          \/ canvas_url' = t /\ canvas_url # t /\ UNCHANGED <<canvas_api_key, todoist_api_key>>
          \/ canvas_api_key' = t /\ canvas_api_key # t /\ UNCHANGED <<canvas_url, todoist_api_key>>
          \/ todoist_api_key' = t /\ todoist_api_key # t /\ UNCHANGED <<canvas_url, canvas_api_key>>
    /\ UNCHANGED <<hash_seed, is_syncing, is_fetching_courses, buttons, course_checkbox_vars,
                   config_file, sync, fetch, hist, fhist, main_log>>

\* clear_local_credentials (140-155), confirmed by the operator
clear_local_credentials ==
    /\ edits < MaxEdits
    /\ edits' = edits + 1
    /\ canvas_url' = ""
    /\ canvas_api_key' = ""
    /\ todoist_api_key' = ""
    /\ credentials # <<"", "", "">>
    /\ UNCHANGED <<hash_seed, is_syncing, is_fetching_courses, buttons, course_checkbox_vars,
                   config_file, sync, fetch, hist, fhist, main_log>>

\* -------------------------------------------------------- the sync thread
Logged(h, lines) == [h EXCEPT !.log = @ \o lines]

\* get_selected_courses_from_gui (103-109): the checked course ids
get_selected_courses_from_gui ==
    {course_id \in DOMAIN course_checkbox_vars : course_checkbox_vars[course_id]}

\* finish_sync (460-464)
finish_sync ==
    /\ is_syncing' = FALSE
    /\ sync_button' = "normal"

\* a rejection that also runs finish_sync
RejectedSyncFinishes(w) ==
    /\ sync' = [sync EXCEPT ![w].pc = "done"]
    /\ hist' = [hist EXCEPT ![w] = [Logged(@, <<"Sync already in progress.">>) EXCEPT !.outcome = "rejected"]]
    /\ finish_sync
    /\ UNCHANGED <<hash_seed, credentials, is_fetching_courses, fetch_courses_button,
                   course_checkbox_vars, config_file, fetch, fhist, main_log, edits>>

\* run_sync_process, 396-398: the in-flight guard
RejectedSync(w) ==
    /\ sync' = [sync EXCEPT ![w].pc = "done"]
    /\ hist' = [hist EXCEPT ![w] = [Logged(@, <<"Sync already in progress.">>) EXCEPT !.outcome = "rejected"]]
    /\ UNCHANGED <<hash_seed, credentials, is_syncing, is_fetching_courses, buttons,
                   course_checkbox_vars, config_file, fetch, fhist, main_log, edits>>

SyncGuard(w) ==
    /\ sync[w].pc = "guard"
    /\ IF is_syncing
       THEN RejectedSync(w)
       ELSE /\ sync' = [sync EXCEPT ![w].pc = "check_credentials"]
            /\ UNCHANGED <<hash_seed, credentials, is_syncing, is_fetching_courses, buttons,
                           course_checkbox_vars, config_file, fetch, hist, fhist, main_log, edits>>

\* run_sync_process, 400-404: the three credentials
MissingCredentials(w) ==
    /\ sync' = [sync EXCEPT ![w].pc = "done"]
    /\ hist' = [hist EXCEPT ![w] = [Logged(@, <<"Sync aborted: Missing credentials.">>) EXCEPT !.outcome = "showerror: credentials"]]
    /\ UNCHANGED <<hash_seed, credentials, is_syncing, is_fetching_courses, buttons,
                   course_checkbox_vars, config_file, fetch, fhist, main_log, edits>>

SyncCheckCredentials(w) ==
    /\ sync[w].pc = "check_credentials"
    /\ IF canvas_url = "" \/ canvas_api_key = "" \/ todoist_api_key = ""
       THEN MissingCredentials(w)
       ELSE /\ sync' = [sync EXCEPT ![w].pc = "get_selected"]
            /\ UNCHANGED <<hash_seed, credentials, is_syncing, is_fetching_courses, buttons,
                           course_checkbox_vars, config_file, fetch, hist, fhist, main_log, edits>>

\* run_sync_process, 406-411: the selection, read from the checkboxes
NoCoursesSelected(w) ==
    /\ sync' = [sync EXCEPT ![w].pc = "done"]
    /\ hist' = [hist EXCEPT ![w] = [Logged(@, <<"Sync aborted: No courses selected.">>) EXCEPT !.outcome = "showwarning: no courses"]]
    /\ UNCHANGED <<hash_seed, credentials, is_syncing, is_fetching_courses, buttons,
                   course_checkbox_vars, config_file, fetch, fhist, main_log, edits>>

SyncGetSelected(w) ==
    /\ sync[w].pc = "get_selected"
    /\ IF get_selected_courses_from_gui = {}
       THEN NoCoursesSelected(w)
       ELSE /\ \E order \in Orderings(get_selected_courses_from_gui) :
                 sync' = [sync EXCEPT ![w].pc = "save_selection",
                                      ![w].selected_course_ids = order]
            /\ UNCHANGED <<hash_seed, credentials, is_syncing, is_fetching_courses, buttons,
                           course_checkbox_vars, config_file, fetch, hist, fhist, main_log, edits>>

\* save_course_selection (91-101): the strings written, or an IOError that
\* leaves the file as it was (open failed) or cut short (the write failed)
WrittenIdsButLast(selected_ids) == [k \in 1..(Len(selected_ids) - 1) |-> str(selected_ids[k])]

WrittenIds(selected_ids) == [k \in 1..Len(selected_ids) |-> str(selected_ids[k])]

save_course_selection(w, selected_ids) ==
    \/ /\ config_file' = JsonFile(WrittenIds(selected_ids))
       /\ hist' = [hist EXCEPT ![w] = [Logged(@, <<"Saved course selection">>) EXCEPT !.wrote = TRUE]]
    \/ /\ config_file' \in {config_file, CorruptFile}
       /\ hist' = [hist EXCEPT ![w] = [Logged(@, <<"Error saving course selection">>) EXCEPT !.wrote = TRUE]]

\* a run that goes on without saving
SyncSaveSelectionSkipped(w) ==
    /\ sync[w].pc = "save_selection"
    /\ sync' = [sync EXCEPT ![w].pc = "start_sync"]
    /\ UNCHANGED <<hash_seed, credentials, is_syncing, is_fetching_courses, buttons,
                   course_checkbox_vars, config_file, fetch, hist, fhist, main_log, edits>>

\* run_sync_process, 412
SyncSaveSelection(w) ==
    /\ sync[w].pc = "save_selection"
    /\ save_course_selection(w, sync[w].selected_course_ids)
    /\ sync' = [sync EXCEPT ![w].pc = "start_sync"]
    /\ UNCHANGED <<hash_seed, credentials, is_syncing, is_fetching_courses, buttons,
                   course_checkbox_vars, fetch, fhist, main_log, edits>>

\* run_sync_process, 415
SyncStart(w) ==
    /\ sync[w].pc = "start_sync"
    /\ is_syncing' = TRUE
    /\ sync' = [sync EXCEPT ![w].pc = "disable_button"]
    /\ hist' = [hist EXCEPT ![w].set_flag = TRUE]
    /\ UNCHANGED <<hash_seed, credentials, is_fetching_courses, buttons, course_checkbox_vars,
                   config_file, fetch, fhist, main_log, edits>>

\* run_sync_process, 416-417
SyncDisableButton(w) ==
    /\ sync[w].pc = "disable_button"
    /\ sync_button' = "disabled"
    /\ sync' = [sync EXCEPT ![w].pc = "collect_enter"]
    /\ hist' = [hist EXCEPT ![w] = Logged(@, <<"--- Starting Sync Process">>)]
    /\ UNCHANGED <<hash_seed, credentials, is_syncing, is_fetching_courses, fetch_courses_button,
                   course_checkbox_vars, config_file, fetch, fhist, main_log, edits>>

\* ------------------------------ get_canvas_assignments_for_courses (199-254)
\* 225: course_data.get('course_code', course_data.get('name', f"Course {id}")):
\* get() gives its default for a missing key only, so a null code is the label
CourseLabel(course_id, course_data) ==
    IF course_data.has_code
    THEN IF course_data.code_null THEN <<"None", 0>> ELSE <<"course_code", course_id>>
    ELSE IF course_data.has_name THEN <<"name", course_id>>
    ELSE <<"Course", course_id>>

\* a filter that looks for the submission object only
AlreadySubmittedHasSubmission(assign) == assign.sub # "none"

\* 235: assign.get('submission') and assign['submission'].get('submitted_at')
AlreadySubmitted(assign) == assign.sub # "none" /\ assign.sub = "submitted"

\* the assignments kept, the latest first
SurvivorsLatestFirst(assignments, course_name) ==
    LET kept == SelectSeq(assignments, LAMBDA assign : ~AlreadySubmitted(assign))
    IN  [k \in 1..Len(kept) |->
            [id |-> kept[Len(kept) + 1 - k].id, sub |-> kept[Len(kept) + 1 - k].sub,
             due |-> kept[Len(kept) + 1 - k].due, html_url |-> kept[Len(kept) + 1 - k].html_url,
             course_name |-> course_name]]

\* 234-239: the assignments kept, each with its course_name
Survivors(assignments, course_name) ==
    LET kept == SelectSeq(assignments, LAMBDA assign : ~AlreadySubmitted(assign))
    IN  [k \in 1..Len(kept) |->
            [id |-> kept[k].id, sub |-> kept[k].sub, due |-> kept[k].due,
             html_url |-> kept[k].html_url, course_name |-> course_name]]

SkipLines(assignments) ==
    [k \in 1..Len(SelectSeq(assignments, AlreadySubmitted)) |-> "Skipping already submitted assignment"]

\* 216-251, one pass of the loop: the requests made, the lines logged and the
\* assignments appended when the course-info request is answered by info and
\* the assignments request by assign_response
FetchCourse(course_id, info, assign_response) ==
    IF info.status # "ok"
    THEN [requests |-> 1, appended |-> <<>>,
          seen |-> [course |-> course_id, info |-> info, assign_response |-> NotRequested],
          log |-> <<"Fetching assignments for selected course",
                    IF info.status = "error" THEN "Canvas API Error for course"
                    ELSE "Unexpected error fetching assignments for course">>]
    ELSE IF assign_response.status # "ok"
    THEN [requests |-> 2, appended |-> <<>>,
          seen |-> [course |-> course_id, info |-> info, assign_response |-> assign_response],
          log |-> <<"Fetching assignments for selected course",
                    IF assign_response.status = "error" THEN "Canvas API Error for course"
                    ELSE "Unexpected error fetching assignments for course">>]
    ELSE [requests |-> 2,
          appended |-> Survivors(assign_response.assignments, CourseLabel(course_id, info)),
          seen |-> [course |-> course_id, info |-> info, assign_response |-> assign_response],
          log |-> <<"Fetching assignments for selected course", "Found upcoming assignments">>
                  \o SkipLines(assign_response.assignments)]

\* an empty selection reported as an error
NoCoursesAsError ==
    [assignments_is_none |-> TRUE, assignments |-> <<>>, error |-> "No courses selected for sync."]

\* 206-208: return [], None
NoCourses == [assignments_is_none |-> FALSE, assignments |-> <<>>, error |-> None]

\* a loop that stops at the first course that failed
LoopEndsAtFailure(seen, last) ==
    last \/ seen.info.status # "ok" \/ seen.assign_response.status # "ok"

\* 215, 241-251: every except clause ends in continue, so the loop ends
\* after the last course only
LoopEnds(seen, last) == last

\* 201-213: the credentials, the empty selection, the start of the loop
CollectEnter(w) ==
    /\ sync[w].pc = "collect_enter"
    /\ IF canvas_url = "" \/ canvas_api_key = ""
       THEN /\ sync' = [sync EXCEPT ![w].pc = "got_assignments",
                                    ![w].returned = TRUE,
                                    ![w].assignments_is_none = TRUE,
                                    ![w].error = "Canvas URL or API Key missing."]
            /\ hist' = [hist EXCEPT ![w] = Logged(@, <<"Canvas URL or API Key missing.">>)]
       ELSE IF sync[w].selected_course_ids = <<>>
       THEN /\ sync' = [sync EXCEPT ![w].pc = "got_assignments",
                                    ![w].returned = TRUE,
                                    ![w].assignments_is_none = NoCourses.assignments_is_none,
                                    ![w].assignments = NoCourses.assignments,
                                    ![w].error = NoCourses.error]
            /\ hist' = [hist EXCEPT ![w] = Logged(@, <<"No courses selected for sync.">>)]
       ELSE /\ sync' = [sync EXCEPT ![w].pc = "collect_course",
                                    ![w].all_assignments = <<>>,
                                    ![w].i = 1]
            /\ UNCHANGED hist
    /\ UNCHANGED <<hash_seed, credentials, is_syncing, is_fetching_courses, buttons,
                   course_checkbox_vars, config_file, fetch, fhist, main_log, edits>>

\* 215-254: one course; after the last one, 253-254 return the list
CollectCourse(w, E) ==
    /\ sync[w].pc = "collect_course"
    /\ LET course_id == sync[w].selected_course_ids[sync[w].i]
           last == sync[w].i = Len(sync[w].selected_course_ids)
       IN  \E info \in E.info :
           \E assign_response \in AssignmentResponses(course_id, E.kinds, E.maxlen) :
              LET r == FetchCourse(course_id, info, assign_response)
                  all == sync[w].all_assignments \o r.appended
                  ends == LoopEnds(r.seen, last)
              IN  /\ sync' = [sync EXCEPT
                                ![w].all_assignments = all,
                                ![w].i = @ + 1,
                                ![w].pc = IF ends THEN "got_assignments" ELSE "collect_course",
                                ![w].returned = ends,
                                ![w].assignments = IF ends THEN all ELSE @,
                                ![w].error = IF ends THEN None ELSE @]
                  /\ hist' = [hist EXCEPT ![w] =
                                [Logged(@, r.log \o (IF ends THEN <<"Total upcoming, unsubmitted assignments fetched">> ELSE <<>>))
                                   EXCEPT !.netcalls = @ + r.requests,
                                          !.responses = Append(@, r.seen)]]
    /\ UNCHANGED <<hash_seed, credentials, is_syncing, is_fetching_courses, buttons,
                   course_checkbox_vars, config_file, fetch, fhist, main_log, edits>>

\* a run that returns on an empty list without finish_sync
AfterCollectReturnsAtOnce(w) ==
    /\ sync[w].pc = "got_assignments"
    /\ IF sync[w].error # None
       THEN /\ finish_sync
            /\ sync' = [sync EXCEPT ![w].pc = "done"]
            /\ hist' = [hist EXCEPT ![w].outcome = "showerror: canvas"]
       ELSE IF sync[w].assignments = <<>>
       THEN /\ sync' = [sync EXCEPT ![w].pc = "done"]
            /\ hist' = [hist EXCEPT ![w] = [Logged(@, <<"No upcoming, unsubmitted assignments found">>)
                                              EXCEPT !.outcome = "showinfo: nothing to sync"]]
            /\ UNCHANGED <<is_syncing, sync_button>>
       ELSE /\ sync' = [sync EXCEPT ![w].pc = "publish", ![w].i = 1,
                                    ![w].synced_count = 0, ![w].error_count = 0]
            /\ hist' = [hist EXCEPT ![w] = Logged(@, <<"Note: Duplicate checking relies on Todoist idempotency key.">>)]
            /\ UNCHANGED <<is_syncing, sync_button>>
    /\ UNCHANGED <<hash_seed, credentials, is_fetching_courses, fetch_courses_button,
                   course_checkbox_vars, config_file, fetch, fhist, main_log, edits>>

\* run_sync_process, 421-436: what the Collector returned
AfterCollect(w) ==
    /\ sync[w].pc = "got_assignments"
    /\ IF sync[w].error # None
       THEN /\ finish_sync
            /\ sync' = [sync EXCEPT ![w].pc = "done"]
            /\ hist' = [hist EXCEPT ![w].outcome = "showerror: canvas"]
       ELSE IF sync[w].assignments = <<>>
       THEN /\ finish_sync
            /\ sync' = [sync EXCEPT ![w].pc = "done"]
            /\ hist' = [hist EXCEPT ![w] = [Logged(@, <<"No upcoming, unsubmitted assignments found">>)
                                              EXCEPT !.outcome = "showinfo: nothing to sync"]]
       ELSE /\ sync' = [sync EXCEPT ![w].pc = "publish", ![w].i = 1,
                                    ![w].synced_count = 0, ![w].error_count = 0]
            /\ hist' = [hist EXCEPT ![w] = Logged(@, <<"Note: Duplicate checking relies on Todoist idempotency key.">>)]
            /\ UNCHANGED <<is_syncing, sync_button>>
    /\ UNCHANGED <<hash_seed, credentials, is_fetching_courses, fetch_courses_button,
                   course_checkbox_vars, config_file, fetch, fhist, main_log, edits>>

\* ------------------------------------------- create_todoist_task (257-308)
\* The answer to one POST: "created" (2xx with the task as JSON), "empty"
\* (2xx whose JSON body is falsy), "not_json" (2xx whose body json() cannot
\* decode), "http_error" (a status raise_for_status raises on, other than
\* 429), "no_response" (requests.post itself raises), "rate_limited" (429,
\* with its Retry-After header: "absent", "seconds" (RetryAfterSeconds as a
\* decimal string), or "date", an HTTP-date that int() rejects)
DefaultRetryAfter == 10
RetryAfterSeconds == 2

PostOutcomes ==
    {[kind |-> k, retry_after |-> "absent"] :
        k \in {"created", "empty", "not_json", "http_error", "no_response"}}
    \cup {[kind |-> "rate_limited", retry_after |-> ra] : ra \in {"absent", "seconds", "date"}}

\* 445: elif task
Truthy(task) == task \notin {None, "{}"}

\* raise_for_status asked of the first response after a retry
AfterResponseOfFirst(response, posts, log, slept) ==
    IF posts = 2 \/ response.kind \in {"http_error", "rate_limited"}
    THEN [raised |-> FALSE, task |-> None, error |-> "Todoist API Error (Status)",
          posts |-> posts, slept |-> slept, log |-> log \o <<"Todoist API Error (Status)">>]
    ELSE IF response.kind = "not_json"
    THEN [raised |-> FALSE, task |-> None, error |-> "Todoist API Error",
          posts |-> posts, slept |-> slept,
          log |-> log \o <<"Successfully created Todoist task", "Todoist API Error">>]
    ELSE [raised |-> FALSE, task |-> IF response.kind = "empty" THEN "{}" ELSE "task",
          error |-> None, posts |-> posts, slept |-> slept,
          log |-> log \o <<"Successfully created Todoist task">>]

\* 292-294 on the response that reaches raise_for_status
AfterResponse(response, posts, log, slept) ==
    IF response.kind \in {"http_error", "rate_limited"}
    THEN [raised |-> FALSE, task |-> None, error |-> "Todoist API Error (Status)",
          posts |-> posts, slept |-> slept, log |-> log \o <<"Todoist API Error (Status)">>]
    ELSE IF response.kind = "not_json"
    THEN [raised |-> FALSE, task |-> None, error |-> "Todoist API Error",
          posts |-> posts, slept |-> slept,
          log |-> log \o <<"Successfully created Todoist task", "Todoist API Error">>]
    ELSE [raised |-> FALSE, task |-> IF response.kind = "empty" THEN "{}" ELSE "task",
          error |-> None, posts |-> posts, slept |-> slept,
          log |-> log \o <<"Successfully created Todoist task">>]

\* the call for one assignment, the first POST answered by first and the
\* retry, when there is one, by second: what it returns (or that it raised),
\* the POSTs it issued, the waits it made, the lines it logged
create_todoist_task(api_key, assignment, first, second) ==
    IF api_key = ""
    THEN [raised |-> FALSE, task |-> None, error |-> "Todoist API Key missing.",
          posts |-> 0, slept |-> <<>>, log |-> <<"Todoist API Key missing.">>]
    ELSE IF assignment.due = "nonstr"
    THEN \* 276: .replace on a value that is no str; only ValueError is caught
         [raised |-> TRUE, task |-> None, error |-> None,
          posts |-> 0, slept |-> <<>>, log |-> <<>>]
    ELSE LET duelog == IF assignment.due = "bad" THEN <<"Could not parse due date">> ELSE <<>>
         IN  IF first.kind = "no_response"
             THEN [raised |-> FALSE, task |-> None, error |-> "Todoist API Error",
                   posts |-> 1, slept |-> <<>>, log |-> duelog \o <<"Todoist API Error">>]
             ELSE IF first.kind = "rate_limited"
             THEN IF first.retry_after = "date"
                  THEN [raised |-> FALSE, task |-> None,
                        error |-> "Unexpected error creating Todoist task",
                        posts |-> 1, slept |-> <<>>,
                        log |-> duelog \o <<"Unexpected error creating Todoist task">>]
                  ELSE LET retry_after == IF first.retry_after = "absent"
                                          THEN DefaultRetryAfter ELSE RetryAfterSeconds
                           log == duelog \o <<"Todoist rate limit hit. Waiting">>
                       IN  IF second.kind = "no_response"
                           THEN [raised |-> FALSE, task |-> None, error |-> "Todoist API Error",
                                 posts |-> 2, slept |-> <<retry_after>>,
                                 log |-> log \o <<"Todoist API Error">>]
                           ELSE AfterResponse(second, 2, log, <<retry_after>>)
             ELSE AfterResponse(first, 1, duelog, <<>>)

\* 267: assignment.get('html_url', assignment.get('id')), the value hashed
HashInput(assignment) ==
    IF assignment.html_url[1] = "absent" THEN <<"id", assignment.id>> ELSE assignment.html_url

\* hash(): an int hashes to itself in every process; the hash of a str is
\* keyed by the seed the interpreter drew at start-up (PYTHONHASHSEED
\* unset). Two seeds stand for two start-ups whose hashes of the same str
\* differ.
hash(seed, value) ==
    IF value[1] = "id" THEN <<"hash", 0, value>> ELSE <<"hash", seed, value>>

\* 264-268: the X-Request-Id header; str() of an int is one-to-one
XRequestId(seed, assignment) == hash(seed, HashInput(assignment))

\* ------------------------------------------ run_sync_process, 439-458
\* the answers a call consumed: none without a key or when 276 raises, the
\* first, and the second when the call retried; 285 and 290 send the one
\* headers dict built at 264-268, so every POST of a call carries its token
Consumed(r, first, second) ==
    IF r.posts = 0 THEN <<>> ELSE IF r.posts = 1 THEN <<first>> ELSE <<first, second>>

\* 447: time.sleep(0.5), in tenths of a second
InterItemDelay == 5

\* 439-447: one assignment of the batch
PublishItem(w, E) ==
    /\ sync[w].pc = "publish"
    /\ LET assignment == sync[w].assignments[sync[w].i]
           last == sync[w].i = Len(sync[w].assignments)
       IN  \E first \in E.posts : \E second \in E.posts :
              LET r == create_todoist_task(todoist_api_key, assignment, first, second)
              IN  IF r.raised
                  THEN \* the exception leaves run_sync_process: the thread ends
                       /\ sync' = [sync EXCEPT ![w].pc = "raised"]
                       /\ hist' = [hist EXCEPT ![w] =
                                     [Logged(@, <<"Processing assignment">>)
                                        EXCEPT !.outcome = "raised",
                                               !.calls = Append(@, [assignment |-> assignment,
                                                                    answers |-> Consumed(r, first, second),
                                                                    tokens |-> <<>>,
                                                                    slept |-> r.slept, task |-> r.task,
                                                                    error |-> r.error, raised |-> TRUE,
                                                                    delay |-> 0])]]
                  ELSE /\ sync' = [sync EXCEPT
                                     ![w].error_count = IF r.error # None THEN @ + 1 ELSE @,
                                     ![w].synced_count = IF r.error = None /\ Truthy(r.task) THEN @ + 1 ELSE @,
                                     ![w].i = @ + 1,
                                     ![w].pc = IF last THEN "sync_finished" ELSE "publish"]
                       /\ hist' = [hist EXCEPT ![w] =
                                     [Logged(@, <<"Processing assignment">> \o r.log
                                                \o (IF r.error # None THEN <<"  -> Failed to create task">> ELSE <<>>))
                                        EXCEPT !.netcalls = @ + r.posts,
                                               !.posted = @ \o [k \in 1..r.posts |-> assignment],
                                               !.calls = Append(@, [assignment |-> assignment,
                                                                    answers |-> Consumed(r, first, second),
                                                                    tokens |-> [k \in 1..r.posts |->
                                                                                  XRequestId(hash_seed, assignment)],
                                                                    slept |-> r.slept, task |-> r.task,
                                                                    error |-> r.error, raised |-> FALSE,
                                                                    delay |-> InterItemDelay])]]
    /\ UNCHANGED <<hash_seed, credentials, is_syncing, is_fetching_courses, buttons,
                   course_checkbox_vars, config_file, fetch, fhist, main_log, edits>>

\* a summary that warns only when nothing was created
SyncOutcomeWarnsOnTotalFailure(synced_count, error_count) ==
    IF error_count > 0 /\ synced_count = 0
    THEN "showwarning: finished with errors" ELSE "showinfo: finished"

\* 452-456: the dialog that closes the batch
SyncOutcome(synced_count, error_count) ==
    IF error_count > 0 THEN "showwarning: finished with errors" ELSE "showinfo: finished"

\* 449-458: the summary, then finish_sync
SyncFinished(w) ==
    /\ sync[w].pc = "sync_finished"
    /\ finish_sync
    /\ sync' = [sync EXCEPT ![w].pc = "done"]
    /\ hist' = [hist EXCEPT ![w] =
                  [Logged(@, <<"--- Sync Process Finished ---", "Successfully synced">>
                             \o (IF sync[w].error_count > 0 THEN <<"Failed to sync">> ELSE <<>>))
                     EXCEPT !.outcome = SyncOutcome(sync[w].synced_count, sync[w].error_count)]]
    /\ UNCHANGED <<hash_seed, credentials, is_fetching_courses, fetch_courses_button,
                   course_checkbox_vars, config_file, fetch, fhist, main_log, edits>>

\* -------------------------------------------------- get_canvas_courses (158-196)
\* Course names and codes: two texts whose order changes under lower()
CourseTexts == {"Bio", "art"}
lower(text) == IF text = "Bio" THEN "bio" ELSE text
TextLess(a, b) == <<a, b>> \in {<<"Bio", "art">>, <<"Bio", "bio">>, <<"art", "bio">>}

\* a course of the response: id (0: null or absent), name (None: null or
\* absent), course_code ("absent": no such key, None: null)
CourseRecords(ids) ==
    [id : ids \cup {0}, name : CourseTexts \cup {None}, course_code : CourseTexts \cup {"absent", None}]

\* 177
ValidCourse(c) == c.id # 0 /\ c.name # None

\* 178: x.get('course_code', x.get('name', ''))
SortKey(x) == IF x.course_code # "absent" THEN x.course_code ELSE x.name

\* list.sort(key=...): stable, ascending (an insertion sort gives the same list)
RECURSIVE SortedByKey(_)
SortedByKey(courses) ==
    IF courses = <<>> THEN <<>>
    ELSE LET n == Len(courses)
             head == SortedByKey(SubSeq(courses, 1, n - 1))
             x == courses[n]
             before == SelectSeq(head, LAMBDA y : ~TextLess(lower(SortKey(x)), lower(SortKey(y))))
             after == SelectSeq(head, LAMBDA y : TextLess(lower(SortKey(x)), lower(SortKey(y))))
         IN  before \o <<x>> \o after

\* The answer to GET api/v1/courses: "ok" with the list, "garbled" (a body
\* that is no JSON list of objects), "no_response" (a RequestException
\* without a response), "http_error" with the shape of its body:
\* "message" ({"errors": [{"message": ...}]}), "not_json", "no_errors"
\* (errors is an empty list), "not_object" (a JSON list, or errors[0] is no
\* object), "errors_object" (errors is an object: [0] is a KeyError),
\* "errors_null" (errors is null: [0] is a TypeError)
ErrorBodies == {"message", "not_json", "no_errors", "not_object", "errors_object", "errors_null"}

get_canvas_courses(canvas_base, api_key, response) ==
    IF canvas_base = "" \/ api_key = ""
    THEN [raised |-> FALSE, courses_is_none |-> TRUE, courses |-> <<>>,
          error |-> "Canvas URL or API Key missing.",
          requests |-> 0, log |-> <<"Canvas URL or API Key missing.">>]
    ELSE IF response.status = "ok"
    THEN LET valid_courses == SelectSeq(response.courses, ValidCourse)
         IN  IF \E k \in 1..Len(valid_courses) : SortKey(valid_courses[k]) = None
             THEN \* None.lower(): AttributeError, caught at 194
                  [raised |-> FALSE, courses_is_none |-> TRUE, courses |-> <<>>,
                   error |-> "Unexpected error fetching courses",
                   requests |-> 1,
                   log |-> <<"Fetching active courses from Canvas...", "Unexpected error fetching courses">>]
             ELSE [raised |-> FALSE, courses_is_none |-> FALSE,
                   courses |-> SortedByKey(valid_courses), error |-> None,
                   requests |-> 1,
                   log |-> <<"Fetching active courses from Canvas...", "Found valid active courses.">>]
    ELSE IF response.status = "garbled"
    THEN [raised |-> FALSE, courses_is_none |-> TRUE, courses |-> <<>>,
          error |-> "Unexpected error fetching courses",
          requests |-> 1,
          log |-> <<"Fetching active courses from Canvas...", "Unexpected error fetching courses">>]
    ELSE IF response.status = "no_response"
    THEN [raised |-> FALSE, courses_is_none |-> TRUE, courses |-> <<>>,
          error |-> "Canvas API Error fetching courses",
          requests |-> 1,
          log |-> <<"Fetching active courses from Canvas...", "Canvas API Error fetching courses">>]
    ELSE IF response.body \in {"errors_object", "errors_null"}
    THEN \* 186 raises inside the except clause; 190 does not catch it
         [raised |-> TRUE, courses_is_none |-> TRUE, courses |-> <<>>, error |-> None,
          requests |-> 1,
          log |-> <<"Fetching active courses from Canvas...">>]
    ELSE [raised |-> FALSE, courses_is_none |-> TRUE, courses |-> <<>>,
          error |-> IF response.body = "message" THEN "Canvas API Error (Status)"
                    ELSE "Canvas API Error: status - text",
          requests |-> 1,
          log |-> <<"Fetching active courses from Canvas...", "Canvas API Error">>]

\* load_course_selection (76-89)
\* 82: config_data.get on a list, a string or a number is an AttributeError,
\* which 87 does not catch
LoadRaises == config_file.state = "not_object"

\* 87: JSONDecodeError of json.load, or ValueError of int() on an entry that
\* passed isdigit()
LoadFails ==
    \/ config_file.state = "corrupt"
    \/ /\ config_file.state = "json"
       /\ \E k \in 1..Len(config_file.selected_course_ids) :
             isdigit(config_file.selected_course_ids[k]) /\ IntRaises(config_file.selected_course_ids[k])

load_course_selection ==
    IF config_file.state # "json" \/ LoadFails
    THEN {}
    ELSE LET selected_ids == config_file.selected_course_ids
         IN  {int(selected_ids[k]) : k \in {j \in 1..Len(selected_ids) : isdigit(selected_ids[j])}}

\* The answers GET api/v1/courses can give when every course is drawn from
\* records and a list holds at most n of them
CoursesResponses(records, n) ==
    {[status |-> "ok", courses |-> l, body |-> "message"] : l \in SeqsUpTo(records, n)}
    \cup {[status |-> st, courses |-> <<>>, body |-> "message"] : st \in {"garbled", "no_response"}}
    \cup {[status |-> "http_error", courses |-> <<>>, body |-> b] : b \in ErrorBodies}

\* ------------------------------------------------------- the fetch thread
\* finish_fetch_courses (378-382)
finish_fetch_courses ==
    /\ is_fetching_courses' = FALSE
    /\ fetch_courses_button' = "normal"

FLogged(h, lines) == [h EXCEPT !.log = @ \o lines]

\* fetch_and_display_courses, 313-315
RejectedFetch(f) ==
    /\ fetch' = [fetch EXCEPT ![f].pc = "done"]
    /\ fhist' = [fhist EXCEPT ![f] = [FLogged(@, <<"Already fetching courses.">>) EXCEPT !.outcome = "rejected"]]
    /\ UNCHANGED <<hash_seed, credentials, is_syncing, is_fetching_courses, buttons,
                   course_checkbox_vars, config_file, sync, hist, main_log, edits>>

FetchGuard(f) ==
    /\ fetch[f].pc = "guard"
    /\ IF is_fetching_courses
       THEN RejectedFetch(f)
       ELSE /\ fetch' = [fetch EXCEPT ![f].pc = "check_credentials"]
            /\ UNCHANGED <<hash_seed, credentials, is_syncing, is_fetching_courses, buttons,
                           course_checkbox_vars, config_file, sync, hist, fhist, main_log, edits>>

\* a fetch that leaves the check of the credentials to get_canvas_courses
FetchCheckCredentialsSkipped(f) ==
    /\ fetch[f].pc = "check_credentials"
    /\ fetch' = [fetch EXCEPT ![f].pc = "start_fetch"]
    /\ UNCHANGED <<hash_seed, credentials, is_syncing, is_fetching_courses, buttons,
                   course_checkbox_vars, config_file, sync, hist, fhist, main_log, edits>>

\* 317-319
FetchCheckCredentials(f) ==
    /\ fetch[f].pc = "check_credentials"
    /\ IF canvas_url = "" \/ canvas_api_key = ""
       THEN /\ fetch' = [fetch EXCEPT ![f].pc = "done"]
            /\ fhist' = [fhist EXCEPT ![f].outcome = "showerror: credentials"]
       ELSE /\ fetch' = [fetch EXCEPT ![f].pc = "start_fetch"]
            /\ UNCHANGED fhist
    /\ UNCHANGED <<hash_seed, credentials, is_syncing, is_fetching_courses, buttons,
                   course_checkbox_vars, config_file, sync, hist, main_log, edits>>

\* 321
FetchStart(f) ==
    /\ fetch[f].pc = "start_fetch"
    /\ is_fetching_courses' = TRUE
    /\ fetch' = [fetch EXCEPT ![f].pc = "disable_button"]
    /\ fhist' = [fhist EXCEPT ![f].set_flag = TRUE]
    /\ UNCHANGED <<hash_seed, credentials, is_syncing, buttons, course_checkbox_vars,
                   config_file, sync, hist, main_log, edits>>

\* 322-323
FetchDisableButton(f) ==
    /\ fetch[f].pc = "disable_button"
    /\ fetch_courses_button' = "disabled"
    /\ fetch' = [fetch EXCEPT ![f].pc = "get_courses"]
    /\ fhist' = [fhist EXCEPT ![f] = FLogged(@, <<"Fetching courses to display...">>)]
    /\ UNCHANGED <<hash_seed, credentials, is_syncing, is_fetching_courses, sync_button,
                   course_checkbox_vars, config_file, sync, hist, main_log, edits>>

\* 325: the call of get_canvas_courses; an exception it lets through ends the thread
FetchGetCourses(f, E) ==
    /\ fetch[f].pc = "get_courses"
    /\ \E response \in E.courses :
          LET r == get_canvas_courses(canvas_url, canvas_api_key, response)
          IN  /\ fetch' = [fetch EXCEPT ![f].pc = IF r.raised THEN "raised" ELSE "got_courses",
                                        ![f].courses_is_none = r.courses_is_none,
                                        ![f].courses = r.courses,
                                        ![f].error = r.error]
              /\ fhist' = [fhist EXCEPT ![f] =
                             [FLogged(@, r.log) EXCEPT !.netcalls = @ + r.requests,
                                                       !.response = IF r.requests > 0 THEN response ELSE @,
                                                       !.outcome = IF r.raised THEN "raised" ELSE @]]
    /\ UNCHANGED <<hash_seed, credentials, is_syncing, is_fetching_courses, buttons,
                   course_checkbox_vars, config_file, sync, hist, main_log, edits>>

\* 327-337: the error dialog and finish, or the checkboxes cleared
FetchAfterCourses(f) ==
    /\ fetch[f].pc = "got_courses"
    /\ IF fetch[f].error # None
       THEN /\ finish_fetch_courses
            /\ fetch' = [fetch EXCEPT ![f].pc = "done"]
            /\ fhist' = [fhist EXCEPT ![f] = [FLogged(@, <<"Course fetch failed">>)
                                                EXCEPT !.outcome = "showerror: fetch"]]
            /\ UNCHANGED course_checkbox_vars
       ELSE /\ course_checkbox_vars' = <<>>
            /\ fetch' = [fetch EXCEPT ![f].pc = "load_selection"]
            /\ fhist' = [fhist EXCEPT ![f].cleared = get_selected_courses_from_gui]
            /\ UNCHANGED <<is_fetching_courses, fetch_courses_button>>
    /\ UNCHANGED <<hash_seed, credentials, is_syncing, sync_button, config_file, sync, hist, main_log, edits>>

\* 340-347: the saved selection is read; an exception load_course_selection
\* lets through ends the thread
FetchLoadSelection(f) ==
    /\ fetch[f].pc = "load_selection"
    /\ IF LoadRaises
       THEN /\ fetch' = [fetch EXCEPT ![f].pc = "raised"]
            /\ fhist' = [fhist EXCEPT ![f].outcome = "raised"]
       ELSE /\ fetch' = [fetch EXCEPT ![f].previously_selected_ids = load_course_selection,
                                      ![f].i = 1,
                                      ![f].pc = IF fetch[f].courses = <<>> THEN "finish" ELSE "populate"]
            /\ fhist' = [fhist EXCEPT ![f] =
                           FLogged(@, (IF config_file.state = "missing" THEN <<"config.json not found.">>
                                       ELSE IF LoadFails THEN <<"Error loading course selection">>
                                       ELSE <<>>)
                                      \o <<"Loaded previously selected course IDs.",
                                           IF fetch[f].courses = <<>> THEN "No active courses found."
                                           ELSE "Displaying courses...">>)]
    /\ UNCHANGED <<hash_seed, credentials, is_syncing, is_fetching_courses, buttons,
                   course_checkbox_vars, config_file, sync, hist, main_log, edits>>

\* 348-374: one course's BooleanVar and checkbox
FetchPopulate(f) ==
    /\ fetch[f].pc = "populate"
    /\ LET course_id == fetch[f].courses[fetch[f].i].id
           last == fetch[f].i = Len(fetch[f].courses)
       IN  /\ course_checkbox_vars' =
                 [c \in DOMAIN course_checkbox_vars \cup {course_id} |->
                     IF c = course_id THEN course_id \in fetch[f].previously_selected_ids
                     ELSE course_checkbox_vars[c]]
           /\ fetch' = [fetch EXCEPT ![f].i = @ + 1,
                                     ![f].pc = IF last THEN "finish" ELSE "populate"]
           /\ fhist' = [fhist EXCEPT ![f] =
                          FLogged(@, IF last THEN <<"Finished displaying courses.">> ELSE <<>>)]
    /\ UNCHANGED <<hash_seed, credentials, is_syncing, is_fetching_courses, buttons,
                   config_file, sync, hist, main_log, edits>>

\* 376
FetchFinish(f) ==
    /\ fetch[f].pc = "finish"
    /\ finish_fetch_courses
    /\ fetch' = [fetch EXCEPT ![f].pc = "done"]
    /\ fhist' = [fhist EXCEPT ![f].outcome = "displayed"]
    /\ UNCHANGED <<hash_seed, credentials, is_syncing, sync_button, course_checkbox_vars,
                   config_file, sync, hist, main_log, edits>>

\* ------------------------------------------------------ the specifications
SyncStep(w, E) ==
    \/ SyncGuard(w)
    \/ SyncCheckCredentials(w)
    \/ SyncGetSelected(w)
    \/ SyncSaveSelection(w)
    \/ SyncStart(w)
    \/ SyncDisableButton(w)
    \/ CollectEnter(w)
    \/ CollectCourse(w, E)
    \/ AfterCollect(w)
    \/ PublishItem(w, E)
    \/ SyncFinished(w)

FetchStep(f, E) ==
    \/ FetchGuard(f)
    \/ FetchCheckCredentials(f)
    \/ FetchStart(f)
    \/ FetchDisableButton(f)
    \/ FetchGetCourses(f, E)
    \/ FetchAfterCourses(f)
    \/ FetchLoadSelection(f)
    \/ FetchPopulate(f)
    \/ FetchFinish(f)

\* The servers the application talks to in Spec: one course, lists of at
\* most AppMaxAssignments assignments
AppMaxAssignments == 1
AppCourse == [id |-> 1, name |-> "art", course_code |-> "absent"]
AppServers ==
    [info |-> {r \in InfoResponses :
                  r.status = "error" \/ (r.has_code /\ r.has_name /\ ~r.code_null)},
     kinds |-> {[sub |-> "none", due |-> "iso"], [sub |-> "submitted", due |-> "iso"],
                [sub |-> "null", due |-> "nonstr"]},
     maxlen |-> AppMaxAssignments,
     posts |-> {o \in PostOutcomes : o.kind \in {"created", "http_error"}},
     courses |-> {r \in CoursesResponses({AppCourse}, 1) :
                     r.status = "ok" \/ r.body \in {"message", "errors_object"}}]

Next ==
    \/ sync_in_thread
    \/ fetch_courses_in_thread
    \/ \E c \in Courses : ToggleCheckbox(c)
    \/ EditCredential
    \/ clear_local_credentials
    \/ \E w \in SyncThreads : SyncStep(w, AppServers)
    \/ \E f \in FetchThreads : FetchStep(f, AppServers)

Spec == Init /\ [][Next]_vars

\* get_canvas_assignments_for_courses called on every selection (the empty
\* one too) under every state of the credentials, by a sync thread that
\* stands at line 420; the thread then goes on as run_sync_process does.
CollectorServers ==
    [info |-> InfoResponses,
     kinds |-> {k \in AllKinds : k.due = "iso"} \cup {[sub |-> "none", due |-> "bad"]},
     maxlen |-> MaxAssignments,
     posts |-> {o \in PostOutcomes : o.kind \in {"created", "http_error"}},
     courses |-> {}]

InitCollector ==
    /\ canvas_url \in Texts
    /\ canvas_api_key \in Texts
    /\ todoist_api_key \in Texts
    /\ edits = MaxEdits
    /\ is_syncing = TRUE
    /\ is_fetching_courses = FALSE
    /\ sync_button = "disabled"
    /\ fetch_courses_button = "normal"
    /\ \E S \in SUBSET Courses : \E order \in Orderings(S) :
          /\ course_checkbox_vars = [c \in Courses |-> c \in S]
          /\ config_file = JsonFile(WrittenIds(order))
          /\ sync = [w \in SyncThreads |->
                       IF w = 1 THEN [SyncFrame EXCEPT !.pc = "collect_enter",
                                                       !.selected_course_ids = order]
                       ELSE SyncFrame]
    /\ fetch = [f \in FetchThreads |-> FetchFrame]
    /\ hist = [w \in SyncThreads |->
                 IF w = 1 THEN [SyncHist EXCEPT !.wrote = TRUE, !.set_flag = TRUE]
                 ELSE SyncHist]
    /\ fhist = [f \in FetchThreads |-> FetchHist]
    /\ main_log = <<>>
    /\ hash_seed = 1

NextCollector ==
    \/ CollectEnter(1)
    \/ CollectCourse(1, CollectorServers)
    \/ AfterCollect(1)
    \/ PublishItem(1, CollectorServers)
    \/ SyncFinished(1)

SpecCollector == InitCollector /\ [][NextCollector]_vars

\* run_sync_process from line 439 on, called on every batch of at most
\* MaxBatch assignments as the collector hands them over, with and without
\* the Todoist key, against a Todoist that can give every answer
MaxBatch == 3

PublisherServers ==
    [info |-> {}, kinds |-> {}, maxlen |-> 0, posts |-> PostOutcomes, courses |-> {}]

Batches ==
    {[k \in 1..Len(dues) |->
         [id |-> k, sub |-> "none", due |-> dues[k], html_url |-> <<"url", k>>,
          course_name |-> <<"course_code", 1>>]] :
        dues \in SeqsUpTo(DueKinds, MaxBatch) \ {<<>>}}

InitPublisher ==
    /\ canvas_url = "set"
    /\ canvas_api_key = "set"
    /\ todoist_api_key \in Texts
    /\ edits = MaxEdits
    /\ is_syncing = TRUE
    /\ is_fetching_courses = FALSE
    /\ sync_button = "disabled"
    /\ fetch_courses_button = "normal"
    /\ course_checkbox_vars = [c \in Courses |-> c = 1]
    /\ config_file = JsonFile(WrittenIds(<<1>>))
    /\ \E batch \in Batches :
          sync = [w \in SyncThreads |->
                    IF w = 1 THEN [SyncFrame EXCEPT !.pc = "publish",
                                                    !.selected_course_ids = <<1>>,
                                                    !.all_assignments = batch,
                                                    !.returned = TRUE,
                                                    !.assignments = batch,
                                                    !.i = 1]
                    ELSE SyncFrame]
    /\ fetch = [f \in FetchThreads |-> FetchFrame]
    /\ hist = [w \in SyncThreads |->
                 IF w = 1 THEN [SyncHist EXCEPT !.wrote = TRUE, !.set_flag = TRUE]
                 ELSE SyncHist]
    /\ fhist = [f \in FetchThreads |-> FetchHist]
    /\ main_log = <<>>
    /\ hash_seed = 1

NextPublisher ==
    \/ PublishItem(1, PublisherServers)
    \/ SyncFinished(1)

SpecPublisher == InitPublisher /\ [][NextPublisher]_vars

\* fetch_and_display_courses from line 325 on, under every state of the
\* Canvas credentials, against a Canvas that can send every list of at most
\* MaxListed course records and every failure
MaxListed == 3

ListerServers ==
    [info |-> {}, kinds |-> {}, maxlen |-> 0, posts |-> {},
     courses |-> CoursesResponses(CourseRecords(Courses), MaxListed)]

InitLister ==
    /\ canvas_url \in Texts
    /\ canvas_api_key \in Texts
    /\ todoist_api_key = "set"
    /\ edits = MaxEdits
    /\ is_syncing = FALSE
    /\ is_fetching_courses = TRUE
    /\ sync_button = "normal"
    /\ fetch_courses_button = "disabled"
    /\ course_checkbox_vars = <<>>
    /\ config_file = JsonFile(<<str(1)>>)
    /\ sync = [w \in SyncThreads |-> SyncFrame]
    /\ fetch = [f \in FetchThreads |->
                  IF f = 1 THEN [FetchFrame EXCEPT !.pc = "get_courses"] ELSE FetchFrame]
    /\ hist = [w \in SyncThreads |-> SyncHist]
    /\ fhist = [f \in FetchThreads |->
                  IF f = 1 THEN [FetchHist EXCEPT !.set_flag = TRUE,
                                                  !.log = <<"Fetching courses to display...">>]
                  ELSE FetchHist]
    /\ main_log = <<>>
    /\ hash_seed = 1

NextLister ==
    \/ FetchGetCourses(1, ListerServers)
    \/ FetchAfterCourses(1)
    \/ FetchLoadSelection(1)
    \/ FetchPopulate(1)
    \/ FetchFinish(1)

SpecLister == InitLister /\ [][NextLister]_vars

\* The same batch published twice: by a sync thread that stands at line
\* 439, then by a second one, started in the same process or after the
\* application was closed and started again. The batch holds at most
\* MaxTokenBatch assignments, with and without a detail URL.
MaxTokenBatch == 2
NumSeeds == 2
HashSeeds == 1..NumSeeds

TokenServers ==
    [info |-> {}, kinds |-> {}, maxlen |-> 0,
     posts |-> {o \in PostOutcomes : o.kind \in {"created", "http_error"}
                                      \/ (o.kind = "rate_limited" /\ o.retry_after = "seconds")},
     courses |-> {}]

TokenBatches ==
    {[k \in 1..Len(urls) |->
         [id |-> k, sub |-> "none", due |-> "iso",
          html_url |-> IF urls[k] = "url" THEN <<"url", k>> ELSE <<urls[k], 0>>,
          course_name |-> <<"course_code", 1>>]] :
        urls \in SeqsUpTo({"url", "absent"}, MaxTokenBatch) \ {<<>>}}

\* a sync thread at line 439 with the batch in hand
AtPublish(batch) ==
    [SyncFrame EXCEPT !.pc = "publish", !.selected_course_ids = <<1>>,
                      !.all_assignments = batch, !.returned = TRUE,
                      !.assignments = batch, !.i = 1]

InitToken ==
    /\ canvas_url = "set"
    /\ canvas_api_key = "set"
    /\ todoist_api_key = "set"
    /\ edits = MaxEdits
    /\ is_syncing = TRUE
    /\ is_fetching_courses = FALSE
    /\ sync_button = "disabled"
    /\ fetch_courses_button = "normal"
    /\ course_checkbox_vars = [c \in Courses |-> c = 1]
    /\ config_file = JsonFile(WrittenIds(<<1>>))
    /\ \E batch \in TokenBatches :
          sync = [w \in SyncThreads |-> IF w = 1 THEN AtPublish(batch) ELSE SyncFrame]
    /\ fetch = [f \in FetchThreads |-> FetchFrame]
    /\ hist = [w \in SyncThreads |->
                 IF w = 1 THEN [SyncHist EXCEPT !.wrote = TRUE, !.set_flag = TRUE]
                 ELSE SyncHist]
    /\ fhist = [f \in FetchThreads |-> FetchHist]
    /\ main_log = <<>>
    /\ hash_seed \in HashSeeds

\* Sync Now pressed again after the first run ended: the second thread
\* reaches line 439 with the same assignments, in the same process
SyncAgain ==
    /\ sync[1].pc = "done"
    /\ sync[2].pc = "unstarted"
    /\ sync' = [sync EXCEPT ![2] = AtPublish(sync[1].assignments)]
    /\ hist' = [hist EXCEPT ![2] = [SyncHist EXCEPT !.wrote = TRUE, !.set_flag = TRUE]]
    /\ is_syncing' = TRUE
    /\ sync_button' = "disabled"
    /\ UNCHANGED <<hash_seed, credentials, is_fetching_courses, fetch_courses_button,
                   course_checkbox_vars, config_file, fetch, fhist, main_log, edits>>

\* the window is closed and the script started again (571-587): a new
\* interpreter with its own hash seed, in which the second thread reaches
\* line 439 with the same assignments
Relaunch ==
    /\ sync[1].pc = "done"
    /\ sync[2].pc = "unstarted"
    /\ hash_seed' \in HashSeeds
    /\ sync' = [sync EXCEPT ![2] = AtPublish(sync[1].assignments)]
    /\ hist' = [hist EXCEPT ![2] = [SyncHist EXCEPT !.wrote = TRUE, !.set_flag = TRUE]]
    /\ is_syncing' = TRUE
    /\ sync_button' = "disabled"
    /\ UNCHANGED <<credentials, is_fetching_courses, fetch_courses_button,
                   course_checkbox_vars, config_file, fetch, fhist, main_log, edits>>

NextToken ==
    \/ \E w \in SyncThreads : PublishItem(w, TokenServers)
    \/ \E w \in SyncThreads : SyncFinished(w)
    \/ SyncAgain
    \/ Relaunch

SpecToken == InitToken /\ [][NextToken]_vars

\* save_course_selection called on every selection and load_course_selection
\* on every file of at most MaxEntries entries, in either order: a sync
\* thread stands at line 412 and a fetch thread at line 340.
MaxEntries == 2
FileEntries == {str(1), str(2), str(-1), <<"text", 0>>, <<"sup", 2>>}
Files ==
    {MissingFile, CorruptFile, NotObjectFile}
    \cup {JsonFile(l) : l \in SeqsUpTo(FileEntries, MaxEntries)}

ListedCourses == [c \in Courses |-> [id |-> c, name |-> "art", course_code |-> "absent"]]

InitSelection ==
    /\ canvas_url = "set"
    /\ canvas_api_key = "set"
    /\ todoist_api_key = "set"
    /\ edits = MaxEdits
    /\ is_syncing = FALSE
    /\ is_fetching_courses = TRUE
    /\ sync_button = "normal"
    /\ fetch_courses_button = "disabled"
    /\ course_checkbox_vars = <<>>
    /\ config_file \in Files
    /\ \E S \in SUBSET Courses : \E order \in Orderings(S) :
          sync = [w \in SyncThreads |->
                    IF w = 1 THEN [SyncFrame EXCEPT !.pc = "save_selection",
                                                    !.selected_course_ids = order]
                    ELSE SyncFrame]
    /\ fetch = [f \in FetchThreads |->
                  IF f = 1 THEN [FetchFrame EXCEPT !.pc = "load_selection",
                                                   !.courses = ListedCourses]
                  ELSE FetchFrame]
    /\ hist = [w \in SyncThreads |-> SyncHist]
    /\ fhist = [f \in FetchThreads |->
                  IF f = 1 THEN [FetchHist EXCEPT !.set_flag = TRUE, !.netcalls = 1,
                                                  !.log = <<"Fetching courses to display...",
                                                            "Fetching active courses from Canvas...",
                                                            "Found valid active courses.">>]
                  ELSE FetchHist]
    /\ main_log = <<>>
    /\ hash_seed = 1

NextSelection ==
    \/ SyncSaveSelection(1)
    \/ FetchLoadSelection(1)
    \/ FetchPopulate(1)
    \/ FetchFinish(1)

SpecSelection == InitSelection /\ [][NextSelection]_vars

\* One fetch and one sync side by side: the fetch thread stands at line 327
\* with the NumCourses courses Canvas listed, the sync thread at line 407,
\* and the operator has checked any of the courses on display.
SavedFiles ==
    {MissingFile} \cup {JsonFile(WrittenIds(order)) : order \in UNION {Orderings(T) : T \in SUBSET Courses}}

InitRebuild ==
    /\ canvas_url = "set"
    /\ canvas_api_key = "set"
    /\ todoist_api_key = "set"
    /\ edits = MaxEdits
    /\ is_syncing = FALSE
    /\ is_fetching_courses = TRUE
    /\ sync_button = "normal"
    /\ fetch_courses_button = "disabled"
    /\ \E S \in SUBSET Courses : course_checkbox_vars = [c \in Courses |-> c \in S]
    /\ config_file \in SavedFiles
    /\ sync = [w \in SyncThreads |->
                 IF w = 1 THEN [SyncFrame EXCEPT !.pc = "get_selected"] ELSE SyncFrame]
    /\ fetch = [f \in FetchThreads |->
                  IF f = 1 THEN [FetchFrame EXCEPT !.pc = "got_courses",
                                                   !.courses = ListedCourses]
                  ELSE FetchFrame]
    /\ hist = [w \in SyncThreads |-> SyncHist]
    /\ fhist = [f \in FetchThreads |->
                  IF f = 1 THEN [FetchHist EXCEPT !.set_flag = TRUE, !.netcalls = 1,
                                                  !.log = <<"Fetching courses to display...",
                                                            "Fetching active courses from Canvas...",
                                                            "Found valid active courses.">>]
                  ELSE FetchHist]
    /\ main_log = <<>>
    /\ hash_seed = 1

NextRebuild ==
    \/ FetchAfterCourses(1)
    \/ FetchLoadSelection(1)
    \/ FetchPopulate(1)
    \/ FetchFinish(1)
    \/ SyncGetSelected(1)
    \/ SyncSaveSelection(1)

SpecRebuild == InitRebuild /\ [][NextRebuild]_vars

\* A whole run of run_sync_process from line 415 on, for every non-empty
\* selection: the thread sets is_syncing, collects and publishes. Every
\* request is answered and every sleep returns (each is part of a step), and
\* the thread keeps being scheduled (weak fairness of its steps).
RunMaxAssignments == 1

RunServers ==
    [info |-> {r \in InfoResponses : r.status = "error" \/ (r.has_code /\ r.has_name /\ ~r.code_null)},
     kinds |-> {[sub |-> "none", due |-> "iso"], [sub |-> "none", due |-> "nonstr"],
                [sub |-> "submitted", due |-> "iso"]},
     maxlen |-> RunMaxAssignments,
     posts |-> {o \in PostOutcomes : o.kind \in {"created", "empty", "http_error"}
                                      \/ (o.kind = "rate_limited" /\ o.retry_after = "seconds")},
     courses |-> {}]

InitRun ==
    /\ canvas_url = "set"
    /\ canvas_api_key = "set"
    /\ todoist_api_key = "set"
    /\ edits = MaxEdits
    /\ is_syncing = FALSE
    /\ is_fetching_courses = FALSE
    /\ sync_button = "normal"
    /\ fetch_courses_button = "normal"
    /\ \E S \in (SUBSET Courses) \ {{}} : \E order \in Orderings(S) :
          /\ course_checkbox_vars = [c \in Courses |-> c \in S]
          /\ config_file = JsonFile(WrittenIds(order))
          /\ sync = [w \in SyncThreads |->
                       IF w = 1 THEN [SyncFrame EXCEPT !.pc = "start_sync",
                                                       !.selected_course_ids = order]
                       ELSE SyncFrame]
    /\ fetch = [f \in FetchThreads |-> FetchFrame]
    /\ hist = [w \in SyncThreads |->
                 IF w = 1 THEN [SyncHist EXCEPT !.wrote = TRUE, !.log = <<"Saved course selection">>]
                 ELSE SyncHist]
    /\ fhist = [f \in FetchThreads |-> FetchHist]
    /\ main_log = <<>>
    /\ hash_seed = 1

NextRun ==
    \/ SyncStart(1)
    \/ SyncDisableButton(1)
    \/ CollectEnter(1)
    \/ CollectCourse(1, RunServers)
    \/ AfterCollect(1)
    \/ PublishItem(1, RunServers)
    \/ SyncFinished(1)

SpecRun == InitRun /\ [][NextRun]_vars /\ WF_vars(NextRun)

\* ------------------------------------------------------------- the claims
\* a thread is executing its operation's body: it has raised its flag and
\* has not ended
InSyncBody(w) ==
    sync[w].pc \in {"disable_button", "collect_enter", "collect_course",
                    "got_assignments", "publish", "sync_finished"}
InFetchBody(f) ==
    fetch[f].pc \in {"disable_button", "get_courses", "got_courses",
                     "load_selection", "populate", "finish"}
Ended == {"done", "raised"}
Others ==
    <<credentials, is_syncing, is_fetching_courses, buttons, course_checkbox_vars,
      config_file, main_log, edits>>

\* C1: for each operation kind, at most one worker executes the operation's
\* body at any time.
C1_OneWorkerPerKind ==
    /\ Cardinality({w \in SyncThreads : InSyncBody(w)}) <= 1
    /\ Cardinality({f \in FetchThreads : InFetchBody(f)}) <= 1

\* C2: a worker that set its in-flight flag leaves the flag false at the step
\* where it ends, whatever the exit path.
C2_FlagResetOnEveryExit ==
    [][/\ \A w \in SyncThreads :
             (hist[w].set_flag /\ sync[w].pc \notin Ended /\ sync'[w].pc \in Ended)
                => is_syncing' = FALSE
       /\ \A f \in FetchThreads :
             (fhist[f].set_flag /\ fetch[f].pc \notin Ended /\ fetch'[f].pc \in Ended)
                => is_fetching_courses' = FALSE]_vars

\* C3: an invocation that finds its in-flight flag set changes nothing but
\* one log line. For the thread's function: its step at the guard appends
\* the line to its own log and ends the thread, and the flags, the buttons,
\* the file, the checkboxes, the credentials and every other thread's frame,
\* counters and history stay as they were. For the button's handler: no
\* thread is started while the flag is set, and the step that logs the
\* rejection changes nothing else. A thread that has ended never runs again.
C3_RejectedIsNoOp ==
    [][/\ \A w \in SyncThreads :
             (is_syncing /\ sync[w].pc = "guard" /\ sync'[w] # sync[w])
                => /\ sync' = [sync EXCEPT ![w].pc = "done"]
                   /\ hist' = [hist EXCEPT ![w].log = Append(@, "Sync already in progress."),
                                           ![w].outcome = "rejected"]
                   /\ hist'[w].netcalls = 0 /\ ~hist'[w].wrote /\ hist'[w].posted = <<>>
                   /\ UNCHANGED <<Others, fetch, fhist>>
       /\ \A f \in FetchThreads :
             (is_fetching_courses /\ fetch[f].pc = "guard" /\ fetch'[f] # fetch[f])
                => /\ fetch' = [fetch EXCEPT ![f].pc = "done"]
                   /\ fhist' = [fhist EXCEPT ![f].log = Append(@, "Already fetching courses."),
                                             ![f].outcome = "rejected"]
                   /\ fhist'[f].netcalls = 0
                   /\ UNCHANGED <<Others, sync, hist>>
       /\ is_syncing => \A w \in SyncThreads : sync[w].pc = "unstarted" => sync'[w] = sync[w]
       /\ is_fetching_courses => \A f \in FetchThreads : fetch[f].pc = "unstarted" => fetch'[f] = fetch[f]
       /\ main_log' # main_log
             => /\ \E line \in {"Sync already running.", "Already fetching courses."} :
                     main_log' = Append(main_log, line)
                /\ is_syncing \/ is_fetching_courses
                /\ UNCHANGED <<hash_seed, credentials, is_syncing, is_fetching_courses, buttons,
                               course_checkbox_vars, config_file, sync, hist, fetch, fhist>>
       /\ \A w \in SyncThreads : sync[w].pc = "done" => (sync'[w] = sync[w] /\ hist'[w] = hist[w])
       /\ \A f \in FetchThreads : fetch[f].pc = "done" => (fetch'[f] = fetch[f] /\ fhist'[f] = fhist[f])]_vars

\* a sync thread has been turned away at the guard while another one runs
C3_Witness ==
    \E w, v \in SyncThreads :
        /\ hist[w].outcome = "rejected" /\ hist[w].log = <<"Sync already in progress.">>
        /\ sync[w].pc = "done"
        /\ InSyncBody(v) /\ is_syncing

\* C4: a sync invocation that finds one of the three credentials empty logs
\* exactly one configuration error, makes no request, writes no file, and
\* ends with is_syncing false.
C4_MissingCredentialsAbort ==
    [][\A w \in SyncThreads :
          (/\ sync[w].pc = "check_credentials" /\ sync'[w] # sync[w]
           /\ (canvas_url = "" \/ canvas_api_key = "" \/ todoist_api_key = ""))
             => /\ sync'[w].pc = "done"
                /\ hist'[w].log = <<"Sync aborted: Missing credentials.">>
                /\ hist'[w].outcome = "showerror: credentials"
                /\ hist'[w].netcalls = 0
                /\ ~hist'[w].wrote /\ config_file' = config_file
                /\ is_syncing' = FALSE]_vars

\* C5: a sync run has called save_course_selection before its first request
\* to Canvas or Todoist.
C5_SaveBeforeNetwork ==
    \A w \in SyncThreads :
        (hist[w].netcalls > 0 \/ hist[w].responses # <<>> \/ hist[w].posted # <<>>
         \/ sync[w].pc \in {"collect_course", "got_assignments", "publish", "sync_finished"})
           => /\ hist[w].wrote
              /\ \E k \in 1..Len(hist[w].log) :
                    hist[w].log[k] \in {"Saved course selection", "Error saving course selection"}

\* a run has posted to Todoist, its selection on file
C5_Witness ==
    \E w \in SyncThreads :
        /\ hist[w].posted # <<>> /\ hist[w].netcalls >= 3
        /\ hist[w].wrote
        /\ config_file = JsonFile(WrittenIds(sync[w].selected_course_ids))

\* C6 as stated: when a sync invocation that passed the guard ends, whatever
\* its outcome, the persisted selection is the set of courses checked.
C6_PersistedAtEveryAttempt ==
    [][\A w \in SyncThreads :
          (sync[w].pc \notin Ended /\ sync'[w].pc \in Ended /\ hist'[w].outcome # "rejected")
             => load_course_selection' = get_selected_courses_from_gui']_vars

\* C6 amended: an invocation that has passed the credentials check and read
\* a selection that is not empty goes on to save_course_selection with the
\* selection it read, before anything else; unless that write fails with an
\* IOError, the persisted selection then equals the selection read. No other
\* step of a sync thread changes the file: an invocation that stops for
\* missing credentials or for an empty selection writes nothing.
C6_PersistedAfterChecks ==
    [][/\ \A w \in SyncThreads :
             (sync[w].pc = "get_selected" /\ sync'[w] # sync[w] /\ get_selected_courses_from_gui # {})
                => /\ sync'[w].pc = "save_selection"
                   /\ Range(sync'[w].selected_course_ids) = get_selected_courses_from_gui
                   /\ Len(sync'[w].selected_course_ids) = Cardinality(get_selected_courses_from_gui)
       /\ \A w \in SyncThreads :
             (sync[w].pc = "save_selection" /\ sync'[w] # sync[w])
                => /\ hist'[w].wrote
                   /\ \/ /\ hist'[w].log = Append(hist[w].log, "Saved course selection")
                         /\ config_file'.state = "json"
                         /\ load_course_selection' = Range(sync[w].selected_course_ids)
                      \/ hist'[w].log = Append(hist[w].log, "Error saving course selection")
       /\ config_file' # config_file
             => \E w \in SyncThreads : sync[w].pc = "save_selection" /\ sync'[w].pc = "start_sync"
       /\ \A w \in SyncThreads :
             (sync[w].pc \in {"guard", "check_credentials", "get_selected"} /\ sync'[w].pc = "done")
                => ~hist'[w].wrote /\ config_file' = config_file]_vars

\* a run has just replaced a file that did not hold its selection
C6_Witness ==
    \E w \in SyncThreads :
        /\ sync[w].pc = "start_sync"
        /\ hist[w].log = <<"Saved course selection">>
        /\ sync[w].selected_course_ids # <<>>
        /\ load_course_selection = Range(sync[w].selected_course_ids)
        /\ edits > 0

\* C7: a sync invocation with complete credentials that reads an empty
\* selection reports a configuration error, makes no request, creates no
\* task, and ends with is_syncing false.
C7_EmptySelectionAbort ==
    [][\A w \in SyncThreads :
          (sync[w].pc = "get_selected" /\ sync'[w] # sync[w] /\ get_selected_courses_from_gui = {})
             => /\ sync'[w].pc = "done"
                /\ hist'[w].log = <<"Sync aborted: No courses selected.">>
                /\ hist'[w].outcome = "showwarning: no courses"
                /\ hist'[w].netcalls = 0 /\ hist'[w].posted = <<>>
                /\ is_syncing' = FALSE]_vars

\* C8 as stated: called on an empty selection, the collector returns
\* ([], None) without a request, whatever the credentials are.
C8_EmptySelectionAnyCredentials ==
    \A w \in SyncThreads :
        (sync[w].returned /\ sync[w].selected_course_ids = <<>>)
           => /\ ~sync[w].assignments_is_none /\ sync[w].assignments = <<>>
              /\ sync[w].error = None
              /\ hist[w].netcalls = 0

\* C8 amended: called on an empty selection, the collector makes no request;
\* it returns ([], None) when the Canvas URL and the Canvas key are both
\* there (whatever the Todoist key is), and (None, "Canvas URL or API Key
\* missing.") when either is empty.
C8_EmptySelection ==
    \A w \in SyncThreads :
        (sync[w].returned /\ sync[w].selected_course_ids = <<>>)
           => /\ hist[w].netcalls = 0 /\ hist[w].responses = <<>>
              /\ IF canvas_url = "" \/ canvas_api_key = ""
                 THEN sync[w].assignments_is_none /\ sync[w].error = "Canvas URL or API Key missing."
                 ELSE ~sync[w].assignments_is_none /\ sync[w].assignments = <<>> /\ sync[w].error = None

\* the collector has returned ([], None) for an empty selection, the
\* Todoist key empty
C8_Witness ==
    /\ sync[1].pc = "got_assignments" /\ sync[1].returned
    /\ sync[1].selected_course_ids = <<>>
    /\ canvas_url # "" /\ canvas_api_key # "" /\ todoist_api_key = ""
    /\ sync[1].assignments = <<>> /\ ~sync[1].assignments_is_none /\ sync[1].error = None

\* both requests for the course were answered
FetchedOk(seen) == seen.info.status = "ok" /\ seen.assign_response.status = "ok"

\* the ids of the unsubmitted assignments in the answers that came
UnsubmittedIds(responses) ==
    UNION {{responses[j].assign_response.assignments[p].id :
               p \in {q \in 1..Len(responses[j].assign_response.assignments) :
                        responses[j].assign_response.assignments[q].sub # "submitted"}} :
           j \in {i \in 1..Len(responses) : FetchedOk(responses[i])}}

\* C9: no assignment whose submission has submitted_at set is in the
\* collector's list or posted to Todoist, and every unsubmitted assignment
\* of a course whose two requests were answered is in the list returned,
\* as Canvas sent it.
C9_OnlyUnsubmitted ==
    \A w \in SyncThreads :
        /\ \A k \in 1..Len(sync[w].all_assignments) : sync[w].all_assignments[k].sub # "submitted"
        /\ \A k \in 1..Len(sync[w].assignments) : sync[w].assignments[k].sub # "submitted"
        /\ \A k \in 1..Len(hist[w].posted) : hist[w].posted[k].sub # "submitted"
        /\ (sync[w].returned /\ ~sync[w].assignments_is_none)
              => \A j \in 1..Len(hist[w].responses) :
                    FetchedOk(hist[w].responses[j])
                       => \A p \in 1..Len(hist[w].responses[j].assign_response.assignments) :
                             LET a == hist[w].responses[j].assign_response.assignments[p]
                             IN  a.sub # "submitted"
                                    => \E k \in 1..Len(sync[w].assignments) :
                                          /\ sync[w].assignments[k].id = a.id
                                          /\ sync[w].assignments[k].sub = a.sub
                                          /\ sync[w].assignments[k].due = a.due

\* a course answered with a submitted assignment and two unsubmitted kinds
\* of them elsewhere; the run has posted what was kept
C9_Witness ==
    /\ sync[1].returned /\ hist[1].posted # <<>>
    /\ \E j \in 1..Len(hist[1].responses) :
          /\ FetchedOk(hist[1].responses[j])
          /\ \E p \in 1..Len(hist[1].responses[j].assign_response.assignments) :
                hist[1].responses[j].assign_response.assignments[p].sub = "submitted"
    /\ \E k \in 1..Len(sync[1].assignments) : sync[1].assignments[k].sub = "null"
    /\ \E k \in 1..Len(sync[1].assignments) : sync[1].assignments[k].sub = "none"

\* C10: a course whose request fails contributes nothing and stops nothing:
\* the collector still asks for every course of the selection, in turn, and
\* returns with no error the unsubmitted assignments of the courses that
\* answered. It returns an error, and no list, exactly when the Canvas URL
\* or the Canvas key is empty.
C10_FailureIsolation ==
    \A w \in SyncThreads :
        /\ sync[w].pc = "collect_course" => Len(hist[w].responses) = sync[w].i - 1
        /\ sync[w].returned
             => /\ (sync[w].error # None) <=> (canvas_url = "" \/ canvas_api_key = "")
                /\ sync[w].error # None
                     => /\ sync[w].error = "Canvas URL or API Key missing."
                        /\ sync[w].assignments_is_none
                        /\ hist[w].responses = <<>>
                /\ sync[w].error = None
                     => /\ ~sync[w].assignments_is_none
                        /\ Len(hist[w].responses) = Len(sync[w].selected_course_ids)
                        /\ \A k \in 1..Len(hist[w].responses) :
                              hist[w].responses[k].course = sync[w].selected_course_ids[k]
                        /\ {sync[w].assignments[k].id : k \in 1..Len(sync[w].assignments)}
                              = UnsubmittedIds(hist[w].responses)

\* the first course failed, the second answered, and its assignments are
\* returned with no error
C10_Witness ==
    /\ sync[1].pc = "got_assignments" /\ sync[1].returned /\ sync[1].error = None
    /\ Len(hist[1].responses) = 2
    /\ ~FetchedOk(hist[1].responses[1])
    /\ FetchedOk(hist[1].responses[2])
    /\ sync[1].assignments # <<>>
    /\ \A k \in 1..Len(sync[1].assignments) :
          sync[1].assignments[k].id \in {AssignmentId(sync[1].selected_course_ids[2], p) : p \in 1..MaxAssignments}

\* what Canvas sent of an assignment, without the course_name added at 238
AsSent(assignments) ==
    [k \in 1..Len(assignments) |->
        [id |-> assignments[k].id, sub |-> assignments[k].sub, due |-> assignments[k].due,
         html_url |-> assignments[k].html_url]]

\* the unsubmitted assignments of the answers, course after course, each
\* course's in the order of its answer
RECURSIVE Flattened(_)
Flattened(responses) ==
    IF responses = <<>> THEN <<>>
    ELSE LET n == Len(responses)
             seen == responses[n]
         IN  Flattened(SubSeq(responses, 1, n - 1))
             \o (IF FetchedOk(seen)
                 THEN SelectSeq(seen.assign_response.assignments, LAMBDA a : a.sub # "submitted")
                 ELSE <<>>)

\* C11: the courses are asked for one after another in the order of the
\* selection, and the list built (and the list returned) is the
\* concatenation, in that order, of each answered course's unsubmitted
\* assignments in the order Canvas sent them: nothing re-sorted, repeated or
\* lost.
C11_ConcatenationInOrder ==
    \A w \in SyncThreads :
        /\ Len(hist[w].responses) <= Len(sync[w].selected_course_ids)
        /\ \A k \in 1..Len(hist[w].responses) :
              hist[w].responses[k].course = sync[w].selected_course_ids[k]
        /\ AsSent(sync[w].all_assignments) = Flattened(hist[w].responses)
        /\ (sync[w].returned /\ ~sync[w].assignments_is_none)
              => /\ AsSent(sync[w].assignments) = Flattened(hist[w].responses)
                 /\ Len(hist[w].responses) = Len(sync[w].selected_course_ids)

\* the selection is course 2 then course 1; course 2 sent a submitted
\* assignment and then an unsubmitted one, course 1 two unsubmitted ones
C11_Witness ==
    /\ sync[1].returned /\ sync[1].selected_course_ids = <<2, 1>>
    /\ Len(sync[1].assignments) = 3
    /\ hist[1].responses[1].assign_response.assignments[1].sub = "submitted"
    /\ sync[1].assignments[1].id = AssignmentId(2, 2)
    /\ sync[1].assignments[2].id = AssignmentId(1, 1)
    /\ sync[1].assignments[3].id = AssignmentId(1, 2)

\* the wait the Retry-After header of a 429 asks for
RetryAfterOf(response) ==
    IF response.retry_after = "absent" THEN DefaultRetryAfter ELSE RetryAfterSeconds

\* C12: in every call of create_todoist_task, a 429 answer to the first POST
\* is followed by exactly one wait of the Retry-After duration (10 without
\* the header) and exactly one retry; no call posts more than twice or waits
\* more than once; a retry that is answered by a 429 or fails otherwise
\* ends the call with an error.
C12_OneWaitOneRetry ==
    \A w \in SyncThreads : \A k \in 1..Len(hist[w].calls) :
        LET call == hist[w].calls[k]
        IN  /\ Len(call.answers) <= 2 /\ Len(call.slept) <= 1
            /\ (call.answers # <<>> /\ call.answers[1].kind = "rate_limited")
                  => /\ Len(call.answers) = 2
                     /\ call.slept = <<RetryAfterOf(call.answers[1])>>
            /\ (call.answers # <<>> /\ call.answers[1].kind # "rate_limited")
                  => Len(call.answers) = 1 /\ call.slept = <<>>
            /\ (Len(call.answers) = 2
                /\ call.answers[2].kind \in {"rate_limited", "http_error", "no_response", "not_json"})
                  => call.error # None /\ call.task = None

\* the lines of log from position n + 1 on that read line
Count(log, n, line) == Cardinality({k \in (n + 1)..Len(log) : log[k] = line})

\* every wait of the calls, in order
RECURSIVE Waits(_)
Waits(calls) ==
    IF calls = <<>> THEN <<>>
    ELSE Waits(SubSeq(calls, 1, Len(calls) - 1)) \o calls[Len(calls)].slept

C14_EveryItemOnceInOrder ==
    \A w \in SyncThreads :
        /\ Len(hist[w].calls) <= Len(sync[w].assignments)
        /\ \A k \in 1..Len(hist[w].calls) :
              /\ hist[w].calls[k].assignment = sync[w].assignments[k]
              /\ hist[w].calls[k].delay = InterItemDelay
        /\ (hist[w].calls # <<>> /\ sync[w].pc # "publish")
              => Len(hist[w].calls) = Len(sync[w].assignments)

\* the outcome the claim gives a batch with these counters
Category(synced_count, error_count) ==
    IF error_count = 0 THEN "full success"
    ELSE IF synced_count > 0 THEN "partial success"
    ELSE "total failure"

\* C15 as stated: the outcome reported for a finished batch is one of three
\* distinct ones fixed by the counters: counters of another category are
\* reported differently.
C15_ThreeOutcomes ==
    \A w \in SyncThreads :
        (sync[w].pc = "done" /\ hist[w].calls # <<>>)
           => \A s, e \in 0..MaxBatch :
                 Category(s, e) # Category(sync[w].synced_count, sync[w].error_count)
                    => SyncOutcome(s, e) # hist[w].outcome

\* C15 amended: a finished batch is reported in one of two ways fixed by
\* error_count alone: the warning "finished with errors" (with the line
\* "Failed to sync" in the log) when error_count > 0, whether or not any task
\* was created, and the information "finished" when error_count = 0, even
\* when no task was created; the counters reported are those of the loop,
\* which together never exceed the number of assignments.
C15_TwoOutcomes ==
    \A w \in SyncThreads :
        (sync[w].pc = "done" /\ hist[w].calls # <<>>)
           => /\ hist[w].outcome = IF sync[w].error_count > 0
                                   THEN "showwarning: finished with errors"
                                   ELSE "showinfo: finished"
              /\ Count(hist[w].log, 0, "Failed to sync") = IF sync[w].error_count > 0 THEN 1 ELSE 0
              /\ Count(hist[w].log, 0, "Successfully synced") = 1
              /\ sync[w].error_count = Cardinality({k \in 1..Len(hist[w].calls) : hist[w].calls[k].error # None})
              /\ sync[w].synced_count + sync[w].error_count <= Len(sync[w].assignments)
              /\ ~is_syncing /\ sync_button = "normal"

\* a batch whose every item failed is reported with the same warning as a
\* batch that failed in part
C15_Witness ==
    /\ sync[1].pc = "done" /\ Len(hist[1].calls) = 2
    /\ sync[1].synced_count = 0 /\ sync[1].error_count = 2
    /\ hist[1].outcome = "showwarning: finished with errors"
    /\ hist[1].outcome = SyncOutcome(1, 1)

\* C17: no call of create_todoist_task lets an exception through to
\* run_sync_process: each returns a task with no error, or no task with an
\* error message; a due_at that cannot be parsed is no error.
C17_NeverRaises ==
    \A w \in SyncThreads :
        /\ sync[w].pc # "raised"
        /\ \A k \in 1..Len(hist[w].calls) :
              LET call == hist[w].calls[k]
              IN  /\ ~call.raised
                  /\ (call.task = None) # (call.error = None)
                  /\ (call.assignment.due = "bad" /\ call.answers = <<[kind |-> "created", retry_after |-> "absent"]>>)
                        => call.task # None /\ call.error = None

\* C16: when the collector has returned an empty list and no error, the run
\* ends at once with the "nothing to sync" information, which is neither the
\* Canvas error nor a batch summary; it has sent nothing to Todoist, and it
\* ends with is_syncing false and the button enabled.
C16_NothingToDo ==
    [][\A w \in SyncThreads :
          (/\ sync[w].pc = "got_assignments" /\ sync'[w] # sync[w]
           /\ sync[w].error = None /\ sync[w].assignments = <<>>)
             => /\ sync'[w].pc = "done"
                /\ hist'[w].outcome = "showinfo: nothing to sync"
                /\ hist'[w].outcome \notin {"showerror: canvas", SyncOutcome(0, 0), SyncOutcome(0, 1)}
                /\ hist'[w].log = Append(hist[w].log, "No upcoming, unsubmitted assignments found")
                /\ Count(hist'[w].log, 0, "--- Sync Process Finished ---") = 0
                /\ hist'[w].posted = <<>> /\ hist'[w].calls = <<>>
                /\ hist'[w].netcalls = hist[w].netcalls
                /\ is_syncing' = FALSE /\ sync_button' = "normal"]_vars

\* a run whose only course sent an assignment already submitted has ended
\* with nothing to sync
C16_Witness ==
    \E w \in SyncThreads :
        /\ sync[w].pc = "done" /\ hist[w].outcome = "showinfo: nothing to sync"
        /\ Len(hist[w].responses) = 1 /\ FetchedOk(hist[w].responses[1])
        /\ Len(hist[w].responses[1].assign_response.assignments) = 1
        /\ hist[w].netcalls = 2 /\ hist[w].posted = <<>>
        /\ ~is_syncing /\ sync_button = "normal"

\* get_canvas_courses has returned to the fetch thread, or raised
AfterGetCourses(f) == fetch[f].pc \notin {"unstarted", "guard", "check_credentials",
                                          "start_fetch", "disable_button", "get_courses"}

\* how many elements of the list are the record
Occurrences(list, record) == Cardinality({k \in 1..Len(list) : list[k] = record})

\* C18: for every list Canvas sends, get_canvas_courses returns the courses
\* of the list that have an id and a name, each as often as it was sent,
\* in ascending order of the lower-cased course_code, of the lower-cased
\* name for a course without one.
C18_FilteredAndSorted ==
    \A f \in FetchThreads :
        (AfterGetCourses(f) /\ fhist[f].response.status = "ok")
           => /\ ~fetch[f].courses_is_none /\ fetch[f].error = None
              /\ \A c \in Range(fhist[f].response.courses) \cup Range(fetch[f].courses) :
                    Occurrences(fetch[f].courses, c)
                       = IF c.id # 0 /\ c.name # None
                         THEN Occurrences(fhist[f].response.courses, c) ELSE 0
              /\ \A i, j \in 1..Len(fetch[f].courses) :
                    i < j => ~TextLess(lower(SortKey(fetch[f].courses[j])),
                                       lower(SortKey(fetch[f].courses[i])))

\* C19: get_canvas_courses never raises: without the Canvas URL or key it
\* returns (None, error) and makes no request; for every failure of the
\* request and every body it cannot use it returns (None, error); it
\* returns a list with no error only after a request that succeeded.
C19_ListerNeverRaises ==
    \A f \in FetchThreads :
        /\ fetch[f].pc # "raised"
        /\ AfterGetCourses(f)
             => /\ fetch[f].courses_is_none <=> fetch[f].error # None
                /\ (canvas_url = "" \/ canvas_api_key = "")
                      => /\ fetch[f].error = "Canvas URL or API Key missing."
                         /\ fhist[f].netcalls = 0
                /\ fhist[f].response.status \in {"garbled", "no_response", "http_error"}
                      => fetch[f].courses_is_none
                /\ ~fetch[f].courses_is_none
                      => fhist[f].response.status = "ok" /\ fhist[f].netcalls = 1

AllCredentials == canvas_url # "" /\ canvas_api_key # "" /\ todoist_api_key # ""
CanvasCredentials == canvas_url # "" /\ canvas_api_key # ""

\* C20 as stated: fetch-courses, the collector and sync make no request
\* when any of the three credentials is empty: the request of the course
\* list, the collector's entry into its loop of requests and a POST to
\* Todoist all need the three of them.
C20_AnyCredentialEmpty ==
    [][/\ \A f \in FetchThreads :
             fhist'[f].netcalls > fhist[f].netcalls => AllCredentials
       /\ \A w \in SyncThreads :
             (sync[w].pc = "collect_enter" /\ sync'[w].pc = "collect_course") => AllCredentials
       /\ \A w \in SyncThreads :
             (sync[w].pc = "publish" /\ hist'[w].netcalls > hist[w].netcalls) => AllCredentials]_vars

\* C20 amended: each operation requires the credentials it uses, as it
\* reads them. Sync stops before any request when any of the three is
\* empty at its check. Fetch-courses stops at its check, and
\* get_canvas_courses and the collector return an error without a request,
\* when the Canvas URL or the Canvas key is empty; the Todoist key is not
\* asked of them. create_todoist_task posts nothing when the Todoist key is
\* empty.
C20_PerOperation ==
    [][/\ \A w \in SyncThreads :
             (sync[w].pc = "check_credentials" /\ sync'[w] # sync[w] /\ ~AllCredentials)
                => sync'[w].pc = "done" /\ hist'[w].netcalls = 0
       /\ \A w \in SyncThreads :
             (sync[w].pc = "collect_enter" /\ sync'[w] # sync[w] /\ ~CanvasCredentials)
                => /\ sync'[w].pc = "got_assignments" /\ sync'[w].error # None
                   /\ hist'[w].netcalls = hist[w].netcalls
       /\ \A w \in SyncThreads :
             (sync[w].pc = "collect_enter" /\ sync'[w].pc = "collect_course") => CanvasCredentials
       /\ \A w \in SyncThreads :
             (sync[w].pc = "got_assignments" /\ sync'[w] # sync[w] /\ sync[w].error # None)
                => sync'[w].pc = "done" /\ hist'[w].netcalls = hist[w].netcalls
       /\ \A w \in SyncThreads :
             (sync[w].pc = "publish" /\ hist'[w].netcalls > hist[w].netcalls) => todoist_api_key # ""
       /\ \A f \in FetchThreads :
             (fetch[f].pc = "check_credentials" /\ fetch'[f] # fetch[f] /\ ~CanvasCredentials)
                => fetch'[f].pc = "done" /\ fhist'[f].netcalls = 0
       /\ \A f \in FetchThreads :
             fhist'[f].netcalls > fhist[f].netcalls => CanvasCredentials
       /\ \A f \in FetchThreads :
             (fetch[f].pc = "get_courses" /\ fetch'[f] # fetch[f] /\ ~CanvasCredentials)
                => /\ fetch'[f].error = "Canvas URL or API Key missing."
                   /\ fhist'[f].netcalls = fhist[f].netcalls]_vars

\* with the Todoist key empty, a fetch has asked Canvas for the courses and
\* shown them, and a sync has stopped at its check without a request
C20_Witness ==
    /\ canvas_url # "" /\ canvas_api_key # "" /\ todoist_api_key = ""
    /\ \E f \in FetchThreads :
          /\ fetch[f].pc = "done" /\ fhist[f].outcome = "displayed" /\ fhist[f].netcalls = 1
    /\ \E w \in SyncThreads :
          /\ sync[w].pc = "done" /\ hist[w].outcome = "showerror: credentials"
          /\ hist[w].netcalls = 0

\* every POST of the two runs: the value its token was computed from and
\* the token
Sent ==
    {[input |-> HashInput(hist[w].calls[i].assignment), token |-> hist[w].calls[i].tokens[k]] :
        <<w, i, k>> \in {<<w, i, k>> \in SyncThreads \X (1..MaxTokenBatch) \X (1..2) :
                           /\ i <= Len(hist[w].calls)
                           /\ k <= Len(hist[w].calls[i].tokens)}}

\* C21: the X-Request-Id is a function of the assignment's detail URL (of
\* its id when it has no URL): two POSTs for the same link carry the same
\* token, whichever call or run sent them, the retry after a 429 included.
C21_TokenOfLinkOnly ==
    \A a, b \in Sent : a.input = b.input => a.token = b.token

\* the step in which fetch thread f calls load_course_selection
Loads(f) == fetch[f].pc = "load_selection" /\ fetch'[f].pc # "load_selection"

\* the entries of the file that are non-negative decimal numbers
DecimalEntries ==
    {config_file.selected_course_ids[k][2] :
        k \in {j \in 1..Len(config_file.selected_course_ids) :
                 /\ config_file.selected_course_ids[j][1] = "dec"
                 /\ config_file.selected_course_ids[j][2] >= 0}}

\* C22: load_course_selection after save_course_selection(S) returns S; of
\* a file's entries the load keeps the digit ones and discards the others;
\* a missing file gives the empty set and no error.
C22_SelectionRoundTrip ==
    [][Loads(1) =>
         /\ config_file = JsonFile(WrittenIds(sync[1].selected_course_ids))
               => fetch'[1].previously_selected_ids = Range(sync[1].selected_course_ids)
         /\ config_file.state = "json"
               => /\ DecimalEntries \subseteq fetch'[1].previously_selected_ids
                  /\ fetch'[1].previously_selected_ids \subseteq DecimalEntries
         /\ config_file.state = "missing"
               => /\ fetch'[1].previously_selected_ids = {}
                  /\ "Error loading course selection" \notin Range(fhist'[1].log)]_vars

\* the course an assignment of AssignmentLists belongs to
CourseOf(id) == id \div (MaxAssignments + 1)

\* the label the answer to the course request resolves to: the course code,
\* else the course name, else "Course {id}"
Resolved(c, info) ==
    IF info.has_code /\ ~info.code_null THEN <<"course_code", c>>
    ELSE IF info.has_name THEN <<"name", c>>
    ELSE <<"Course", c>>

\* C23: every assignment the collector holds carries the label resolved for
\* the course it was fetched from (the code, else the name, else the
\* fallback), and a course whose answer gives neither a code nor a name
\* contributes its unsubmitted assignments under "Course {id}".
C23_LabelOfCourse ==
    \A w \in SyncThreads :
        /\ \A k \in 1..Len(sync[w].all_assignments) :
              LET a == sync[w].all_assignments[k]
              IN  \E j \in 1..Len(hist[w].responses) :
                     /\ hist[w].responses[j].course = CourseOf(a.id)
                     /\ FetchedOk(hist[w].responses[j])
                     /\ a.course_name = Resolved(CourseOf(a.id), hist[w].responses[j].info)
        /\ \A j \in 1..Len(hist[w].responses) :
              LET seen == hist[w].responses[j]
              IN  (FetchedOk(seen) /\ ~seen.info.has_code /\ ~seen.info.has_name)
                     => \A p \in 1..Len(seen.assign_response.assignments) :
                           seen.assign_response.assignments[p].sub # "submitted"
                              => \E k \in 1..Len(sync[w].all_assignments) :
                                    /\ sync[w].all_assignments[k].id = seen.assign_response.assignments[p].id
                                    /\ sync[w].all_assignments[k].course_name = <<"Course", seen.course>>

\* C24: while the batch loop runs, synced_count + error_count is the number
\* of assignments processed so far, and once it is over the number of
\* assignments collected, whatever create_todoist_task returned for each.
C24_CountersAccountForAll ==
    \A w \in SyncThreads :
        /\ sync[w].pc = "publish"
             => sync[w].synced_count + sync[w].error_count = sync[w].i - 1
        /\ (sync[w].pc \in {"sync_finished", "done"} /\ hist[w].calls # <<>>)
             => sync[w].synced_count + sync[w].error_count = Len(sync[w].assignments)

\* fetch thread f has cleared the checkboxes and has not yet put back the
\* last of them
Rebuilding(f) == fetch[f].pc \in {"load_selection", "populate"}

\* the courses that will be checked when fetch thread f has put back every
\* checkbox
SelectionAfter(f) ==
    {fetch[f].courses[k].id : k \in 1..Len(fetch[f].courses)}
    \cap (IF fetch[f].pc = "populate" THEN fetch[f].previously_selected_ids
          ELSE load_course_selection)

\* C25: the selection a sync thread reads from the checkboxes while the
\* fetch is rebuilding them is the one that was checked before the fetch
\* cleared them, or the one that is checked once the fetch has put all of
\* them back.
C25_SelectionNeverHalfBuilt ==
    [][\A w \in SyncThreads :
          (sync[w].pc = "get_selected" /\ sync'[w].pc # "get_selected")
             => \A f \in FetchThreads :
                   Rebuilding(f)
                      => \/ get_selected_courses_from_gui = fhist[f].cleared
                         \/ get_selected_courses_from_gui = SelectionAfter(f)]_vars

\* C26: a sync thread that has set is_syncing comes to its end with
\* is_syncing false and the Sync Now button enabled, so that the next press
\* starts a run that passes the guard.
C26_FlagEventuallyReset ==
    \A w \in SyncThreads :
        hist[w].set_flag ~> (sync[w].pc = "done" /\ ~is_syncing /\ sync_button = "normal")

====
